---- MODULE Spec2Model ----
(***************************************************************************)
(* Model of the genshin.blue ingestion pipeline of GenshinTools:           *)
(*   roster/services/api_client.py      (GenshinApiClient and its helpers) *)
(*   roster/management/commands/import_genshin_blue.py  (Command.handle)   *)
(*   roster/models.py                   (the tables the command upserts)   *)
(*   roster/management/commands/load_sample_data.py and roster/admin.py    *)
(*                                      (the other writers of the tables)  *)
(*                                                                         *)
(* Python strings are sequences of code points (integers), so that         *)
(* lower(), title(), strip(), split(), join(), int() and repr() are        *)
(* computed.                                                               *)
(* JSON values are tagged records with one fixed set of fields.  A dict is *)
(* the sequence of its (key, value) entries in insertion order.            *)
(***************************************************************************)
EXTENDS Integers, Sequences, FiniteSets, TLC

VARIABLES
    pc,           \* position of the operation under way
    arg,          \* argument of the function under check, or the scenario it runs in
    ret,          \* its outcome
    upstream,     \* the remote API: the routes it serves
    store,        \* the database: one sequence of rows per model
    last_id,      \* the database: the last id each table has given
    weapon_map,   \* Command.handle: lower-cased weapon name -> weapon
    artifact_map, \* Command.handle: lower-cased set name -> artifact set
    characters,   \* Command.handle: the payloads fetch_characters returned
    cursor,       \* Command.handle: where the command is inside its phase
    log,          \* the GET requests and upserts of the run under way, in order
    run,          \* the run under way: 1 for the first, 2 for every later one
    before,       \* the store when the run under way started
    other,        \* a second import command, run by another process
    sample,       \* load_sample_data, run by another process
    edits         \* the number of edits made in the admin

handle_vars ==
    <<store, last_id, weapon_map, artifact_map, characters, cursor, log, run, before, other,
      sample, edits>>
vars == <<pc, arg, ret, upstream, store, last_id, weapon_map, artifact_map, characters, cursor,
          log, run, before, other, sample, edits>>

(***************************************************************************)
(* Python str                                                              *)
(***************************************************************************)
\* a character is its code point; the tables are those of the interpreter
\* (Python 3.11, Unicode 14).  A table is sorted by first code point and its
\* entries do not overlap, so the entry that may hold c is the last one that
\* starts at or before c (0 when none does), found by bisection.
RECURSIVE EntryFrom(_, _, _, _)
EntryFrom(c, table, lo, hi) ==
    IF lo > hi THEN hi
    ELSE IF table[(lo + hi) \div 2][1] <= c
    THEN EntryFrom(c, table, (lo + hi) \div 2 + 1, hi)
    ELSE EntryFrom(c, table, lo, (lo + hi) \div 2 - 1)
EntryAt(c, table) == EntryFrom(c, table, 1, Len(table))
\* a range of code points: <<first, last>>
InRange(c, ranges, i) == i > 0 /\ c <= ranges[i][2]
InRanges(c, ranges) == InRange(c, ranges, EntryAt(c, ranges))
\* a case mapping: <<first, last, step, shift>> maps every step-th code
\* point from first to last to itself plus shift
InMapping(c, m) == m[1] <= c /\ c <= m[2] /\ (c - m[1]) % m[3] = 0
MappedAt(c, mapping, i) == i > 0 /\ InMapping(c, mapping[i])
Mapped(c, mapping) == MappedAt(c, mapping, EntryAt(c, mapping))
MapOf(c, mapping) == c + mapping[EntryAt(c, mapping)][4]
\* a special casing: <<code point, text>>
SpecialAt(c, specials, i) == i > 0 /\ specials[i][1] = c
Special(c, specials) == SpecialAt(c, specials, EntryAt(c, specials))
SpecialOf(c, specials) == specials[EntryAt(c, specials)][2]

\* c.lower() where it is one other character
LowerMap ==
    << <<65,90,1,32>>, <<192,214,1,32>>, <<216,222,1,32>>, <<256,302,2,1>>, <<306,310,2,1>>,
       <<313,327,2,1>>, <<330,374,2,1>>, <<376,376,1,-121>>, <<377,381,2,1>>, <<385,385,1,210>>,
       <<386,388,2,1>>, <<390,390,1,206>>, <<391,391,1,1>>, <<393,394,1,205>>, <<395,395,1,1>>,
       <<398,398,1,79>>, <<399,399,1,202>>, <<400,400,1,203>>, <<401,401,1,1>>, <<403,403,1,205>>,
       <<404,404,1,207>>, <<406,406,1,211>>, <<407,407,1,209>>, <<408,408,1,1>>, <<412,412,1,211>>,
       <<413,413,1,213>>, <<415,415,1,214>>, <<416,420,2,1>>, <<422,422,1,218>>, <<423,423,1,1>>,
       <<425,425,1,218>>, <<428,428,1,1>>, <<430,430,1,218>>, <<431,431,1,1>>, <<433,434,1,217>>,
       <<435,437,2,1>>, <<439,439,1,219>>, <<440,440,1,1>>, <<444,444,1,1>>, <<452,452,1,2>>,
       <<453,453,1,1>>, <<455,455,1,2>>, <<456,456,1,1>>, <<458,458,1,2>>, <<459,475,2,1>>,
       <<478,494,2,1>>, <<497,497,1,2>>, <<498,500,2,1>>, <<502,502,1,-97>>, <<503,503,1,-56>>,
       <<504,542,2,1>>, <<544,544,1,-130>>, <<546,562,2,1>>, <<570,570,1,10795>>, <<571,571,1,1>>,
       <<573,573,1,-163>>, <<574,574,1,10792>>, <<577,577,1,1>>, <<579,579,1,-195>>,
       <<580,580,1,69>>, <<581,581,1,71>>, <<582,590,2,1>>, <<880,882,2,1>>, <<886,886,1,1>>,
       <<895,895,1,116>>, <<902,902,1,38>>, <<904,906,1,37>>, <<908,908,1,64>>, <<910,911,1,63>>,
       <<913,929,1,32>>, <<931,939,1,32>>, <<975,975,1,8>>, <<984,1006,2,1>>, <<1012,1012,1,-60>>,
       <<1015,1015,1,1>>, <<1017,1017,1,-7>>, <<1018,1018,1,1>>, <<1021,1023,1,-130>>,
       <<1024,1039,1,80>>, <<1040,1071,1,32>>, <<1120,1152,2,1>>, <<1162,1214,2,1>>,
       <<1216,1216,1,15>>, <<1217,1229,2,1>>, <<1232,1326,2,1>>, <<1329,1366,1,48>>,
       <<4256,4293,1,7264>>, <<4295,4295,1,7264>>, <<4301,4301,1,7264>>, <<5024,5103,1,38864>>,
       <<5104,5109,1,8>>, <<7312,7354,1,-3008>>, <<7357,7359,1,-3008>>, <<7680,7828,2,1>>,
       <<7838,7838,1,-7615>>, <<7840,7934,2,1>>, <<7944,7951,1,-8>>, <<7960,7965,1,-8>>,
       <<7976,7983,1,-8>>, <<7992,7999,1,-8>>, <<8008,8013,1,-8>>, <<8025,8031,2,-8>>,
       <<8040,8047,1,-8>>, <<8072,8079,1,-8>>, <<8088,8095,1,-8>>, <<8104,8111,1,-8>>,
       <<8120,8121,1,-8>>, <<8122,8123,1,-74>>, <<8124,8124,1,-9>>, <<8136,8139,1,-86>>,
       <<8140,8140,1,-9>>, <<8152,8153,1,-8>>, <<8154,8155,1,-100>>, <<8168,8169,1,-8>>,
       <<8170,8171,1,-112>>, <<8172,8172,1,-7>>, <<8184,8185,1,-128>>, <<8186,8187,1,-126>>,
       <<8188,8188,1,-9>>, <<8486,8486,1,-7517>>, <<8490,8490,1,-8383>>, <<8491,8491,1,-8262>>,
       <<8498,8498,1,28>>, <<8544,8559,1,16>>, <<8579,8579,1,1>>, <<9398,9423,1,26>>,
       <<11264,11311,1,48>>, <<11360,11360,1,1>>, <<11362,11362,1,-10743>>,
       <<11363,11363,1,-3814>>, <<11364,11364,1,-10727>>, <<11367,11371,2,1>>,
       <<11373,11373,1,-10780>>, <<11374,11374,1,-10749>>, <<11375,11375,1,-10783>>,
       <<11376,11376,1,-10782>>, <<11378,11378,1,1>>, <<11381,11381,1,1>>,
       <<11390,11391,1,-10815>>, <<11392,11490,2,1>>, <<11499,11501,2,1>>, <<11506,11506,1,1>>,
       <<42560,42604,2,1>>, <<42624,42650,2,1>>, <<42786,42798,2,1>>, <<42802,42862,2,1>>,
       <<42873,42875,2,1>>, <<42877,42877,1,-35332>>, <<42878,42886,2,1>>, <<42891,42891,1,1>>,
       <<42893,42893,1,-42280>>, <<42896,42898,2,1>>, <<42902,42920,2,1>>,
       <<42922,42922,1,-42308>>, <<42923,42923,1,-42319>>, <<42924,42924,1,-42315>>,
       <<42925,42925,1,-42305>>, <<42926,42926,1,-42308>>, <<42928,42928,1,-42258>>,
       <<42929,42929,1,-42282>>, <<42930,42930,1,-42261>>, <<42931,42931,1,928>>,
       <<42932,42946,2,1>>, <<42948,42948,1,-48>>, <<42949,42949,1,-42307>>,
       <<42950,42950,1,-35384>>, <<42951,42953,2,1>>, <<42960,42960,1,1>>, <<42966,42968,2,1>>,
       <<42997,42997,1,1>>, <<65313,65338,1,32>>, <<66560,66599,1,40>>, <<66736,66771,1,40>>,
       <<66928,66938,1,39>>, <<66940,66954,1,39>>, <<66956,66962,1,39>>, <<66964,66965,1,39>>,
       <<68736,68786,1,64>>, <<71840,71871,1,32>>, <<93760,93791,1,32>>, <<125184,125217,1,34>> >>
\* c.lower() where it is more than one character
LowerSpecial ==
    << <<304,<<105,775>>>> >>
\* c.title() where it is one other character
TitleMap ==
    << <<97,122,1,-32>>, <<181,181,1,743>>, <<224,246,1,-32>>, <<248,254,1,-32>>,
       <<255,255,1,121>>, <<257,303,2,-1>>, <<305,305,1,-232>>, <<307,311,2,-1>>, <<314,328,2,-1>>,
       <<331,375,2,-1>>, <<378,382,2,-1>>, <<383,383,1,-300>>, <<384,384,1,195>>, <<387,389,2,-1>>,
       <<392,392,1,-1>>, <<396,396,1,-1>>, <<402,402,1,-1>>, <<405,405,1,97>>, <<409,409,1,-1>>,
       <<410,410,1,163>>, <<414,414,1,130>>, <<417,421,2,-1>>, <<424,424,1,-1>>, <<429,429,1,-1>>,
       <<432,432,1,-1>>, <<436,438,2,-1>>, <<441,441,1,-1>>, <<445,445,1,-1>>, <<447,447,1,56>>,
       <<452,452,1,1>>, <<454,454,1,-1>>, <<455,455,1,1>>, <<457,457,1,-1>>, <<458,458,1,1>>,
       <<460,476,2,-1>>, <<477,477,1,-79>>, <<479,495,2,-1>>, <<497,497,1,1>>, <<499,501,2,-1>>,
       <<505,543,2,-1>>, <<547,563,2,-1>>, <<572,572,1,-1>>, <<575,576,1,10815>>, <<578,578,1,-1>>,
       <<583,591,2,-1>>, <<592,592,1,10783>>, <<593,593,1,10780>>, <<594,594,1,10782>>,
       <<595,595,1,-210>>, <<596,596,1,-206>>, <<598,599,1,-205>>, <<601,601,1,-202>>,
       <<603,603,1,-203>>, <<604,604,1,42319>>, <<608,608,1,-205>>, <<609,609,1,42315>>,
       <<611,611,1,-207>>, <<613,613,1,42280>>, <<614,614,1,42308>>, <<616,616,1,-209>>,
       <<617,617,1,-211>>, <<618,618,1,42308>>, <<619,619,1,10743>>, <<620,620,1,42305>>,
       <<623,623,1,-211>>, <<625,625,1,10749>>, <<626,626,1,-213>>, <<629,629,1,-214>>,
       <<637,637,1,10727>>, <<640,640,1,-218>>, <<642,642,1,42307>>, <<643,643,1,-218>>,
       <<647,647,1,42282>>, <<648,648,1,-218>>, <<649,649,1,-69>>, <<650,651,1,-217>>,
       <<652,652,1,-71>>, <<658,658,1,-219>>, <<669,669,1,42261>>, <<670,670,1,42258>>,
       <<837,837,1,84>>, <<881,883,2,-1>>, <<887,887,1,-1>>, <<891,893,1,130>>, <<940,940,1,-38>>,
       <<941,943,1,-37>>, <<945,961,1,-32>>, <<962,962,1,-31>>, <<963,971,1,-32>>,
       <<972,972,1,-64>>, <<973,974,1,-63>>, <<976,976,1,-62>>, <<977,977,1,-57>>,
       <<981,981,1,-47>>, <<982,982,1,-54>>, <<983,983,1,-8>>, <<985,1007,2,-1>>,
       <<1008,1008,1,-86>>, <<1009,1009,1,-80>>, <<1010,1010,1,7>>, <<1011,1011,1,-116>>,
       <<1013,1013,1,-96>>, <<1016,1016,1,-1>>, <<1019,1019,1,-1>>, <<1072,1103,1,-32>>,
       <<1104,1119,1,-80>>, <<1121,1153,2,-1>>, <<1163,1215,2,-1>>, <<1218,1230,2,-1>>,
       <<1231,1231,1,-15>>, <<1233,1327,2,-1>>, <<1377,1414,1,-48>>, <<5112,5117,1,-8>>,
       <<7296,7296,1,-6254>>, <<7297,7297,1,-6253>>, <<7298,7298,1,-6244>>, <<7299,7300,1,-6242>>,
       <<7301,7301,1,-6243>>, <<7302,7302,1,-6236>>, <<7303,7303,1,-6181>>, <<7304,7304,1,35266>>,
       <<7545,7545,1,35332>>, <<7549,7549,1,3814>>, <<7566,7566,1,35384>>, <<7681,7829,2,-1>>,
       <<7835,7835,1,-59>>, <<7841,7935,2,-1>>, <<7936,7943,1,8>>, <<7952,7957,1,8>>,
       <<7968,7975,1,8>>, <<7984,7991,1,8>>, <<8000,8005,1,8>>, <<8017,8023,2,8>>,
       <<8032,8039,1,8>>, <<8048,8049,1,74>>, <<8050,8053,1,86>>, <<8054,8055,1,100>>,
       <<8056,8057,1,128>>, <<8058,8059,1,112>>, <<8060,8061,1,126>>, <<8064,8071,1,8>>,
       <<8080,8087,1,8>>, <<8096,8103,1,8>>, <<8112,8113,1,8>>, <<8115,8115,1,9>>,
       <<8126,8126,1,-7205>>, <<8131,8131,1,9>>, <<8144,8145,1,8>>, <<8160,8161,1,8>>,
       <<8165,8165,1,7>>, <<8179,8179,1,9>>, <<8526,8526,1,-28>>, <<8560,8575,1,-16>>,
       <<8580,8580,1,-1>>, <<9424,9449,1,-26>>, <<11312,11359,1,-48>>, <<11361,11361,1,-1>>,
       <<11365,11365,1,-10795>>, <<11366,11366,1,-10792>>, <<11368,11372,2,-1>>,
       <<11379,11379,1,-1>>, <<11382,11382,1,-1>>, <<11393,11491,2,-1>>, <<11500,11502,2,-1>>,
       <<11507,11507,1,-1>>, <<11520,11557,1,-7264>>, <<11559,11559,1,-7264>>,
       <<11565,11565,1,-7264>>, <<42561,42605,2,-1>>, <<42625,42651,2,-1>>, <<42787,42799,2,-1>>,
       <<42803,42863,2,-1>>, <<42874,42876,2,-1>>, <<42879,42887,2,-1>>, <<42892,42892,1,-1>>,
       <<42897,42899,2,-1>>, <<42900,42900,1,48>>, <<42903,42921,2,-1>>, <<42933,42947,2,-1>>,
       <<42952,42954,2,-1>>, <<42961,42961,1,-1>>, <<42967,42969,2,-1>>, <<42998,42998,1,-1>>,
       <<43859,43859,1,-928>>, <<43888,43967,1,-38864>>, <<65345,65370,1,-32>>,
       <<66600,66639,1,-40>>, <<66776,66811,1,-40>>, <<66967,66977,1,-39>>, <<66979,66993,1,-39>>,
       <<66995,67001,1,-39>>, <<67003,67004,1,-39>>, <<68800,68850,1,-64>>, <<71872,71903,1,-32>>,
       <<93792,93823,1,-32>>, <<125218,125251,1,-34>> >>
\* c.title() where it is more than one character
TitleSpecial ==
    << <<223,<<83,115>>>>, <<329,<<700,78>>>>, <<496,<<74,780>>>>, <<912,<<921,776,769>>>>,
       <<944,<<933,776,769>>>>, <<1415,<<1333,1410>>>>, <<7830,<<72,817>>>>, <<7831,<<84,776>>>>,
       <<7832,<<87,778>>>>, <<7833,<<89,778>>>>, <<7834,<<65,702>>>>, <<8016,<<933,787>>>>,
       <<8018,<<933,787,768>>>>, <<8020,<<933,787,769>>>>, <<8022,<<933,787,834>>>>,
       <<8114,<<8122,837>>>>, <<8116,<<902,837>>>>, <<8118,<<913,834>>>>, <<8119,<<913,834,837>>>>,
       <<8130,<<8138,837>>>>, <<8132,<<905,837>>>>, <<8134,<<919,834>>>>, <<8135,<<919,834,837>>>>,
       <<8146,<<921,776,768>>>>, <<8147,<<921,776,769>>>>, <<8150,<<921,834>>>>,
       <<8151,<<921,776,834>>>>, <<8162,<<933,776,768>>>>, <<8163,<<933,776,769>>>>,
       <<8164,<<929,787>>>>, <<8166,<<933,834>>>>, <<8167,<<933,776,834>>>>, <<8178,<<8186,837>>>>,
       <<8180,<<911,837>>>>, <<8182,<<937,834>>>>, <<8183,<<937,834,837>>>>, <<64256,<<70,102>>>>,
       <<64257,<<70,105>>>>, <<64258,<<70,108>>>>, <<64259,<<70,102,105>>>>,
       <<64260,<<70,102,108>>>>, <<64261,<<83,116>>>>, <<64262,<<83,116>>>>,
       <<64275,<<1348,1398>>>>, <<64276,<<1348,1381>>>>, <<64277,<<1348,1387>>>>,
       <<64278,<<1358,1398>>>>, <<64279,<<1348,1389>>>> >>
\* the cased characters: title() lower-cases what follows one
Cased ==
    << <<65,90>>, <<97,122>>, <<170,170>>, <<181,181>>, <<186,186>>, <<192,214>>, <<216,246>>,
       <<248,442>>, <<444,447>>, <<452,659>>, <<661,696>>, <<704,705>>, <<736,740>>, <<837,837>>,
       <<880,883>>, <<886,887>>, <<890,893>>, <<895,895>>, <<902,902>>, <<904,906>>, <<908,908>>,
       <<910,929>>, <<931,1013>>, <<1015,1153>>, <<1162,1327>>, <<1329,1366>>, <<1376,1416>>,
       <<4256,4293>>, <<4295,4295>>, <<4301,4301>>, <<4304,4346>>, <<4349,4351>>, <<5024,5109>>,
       <<5112,5117>>, <<7296,7304>>, <<7312,7354>>, <<7357,7359>>, <<7424,7615>>, <<7680,7957>>,
       <<7960,7965>>, <<7968,8005>>, <<8008,8013>>, <<8016,8023>>, <<8025,8025>>, <<8027,8027>>,
       <<8029,8029>>, <<8031,8061>>, <<8064,8116>>, <<8118,8124>>, <<8126,8126>>, <<8130,8132>>,
       <<8134,8140>>, <<8144,8147>>, <<8150,8155>>, <<8160,8172>>, <<8178,8180>>, <<8182,8188>>,
       <<8305,8305>>, <<8319,8319>>, <<8336,8348>>, <<8450,8450>>, <<8455,8455>>, <<8458,8467>>,
       <<8469,8469>>, <<8473,8477>>, <<8484,8484>>, <<8486,8486>>, <<8488,8488>>, <<8490,8493>>,
       <<8495,8500>>, <<8505,8505>>, <<8508,8511>>, <<8517,8521>>, <<8526,8526>>, <<8544,8575>>,
       <<8579,8580>>, <<9398,9449>>, <<11264,11492>>, <<11499,11502>>, <<11506,11507>>,
       <<11520,11557>>, <<11559,11559>>, <<11565,11565>>, <<42560,42605>>, <<42624,42653>>,
       <<42786,42887>>, <<42891,42894>>, <<42896,42954>>, <<42960,42961>>, <<42963,42963>>,
       <<42965,42969>>, <<42997,42998>>, <<43000,43002>>, <<43824,43866>>, <<43868,43880>>,
       <<43888,43967>>, <<64256,64262>>, <<64275,64279>>, <<65313,65338>>, <<65345,65370>>,
       <<66560,66639>>, <<66736,66771>>, <<66776,66811>>, <<66928,66938>>, <<66940,66954>>,
       <<66956,66962>>, <<66964,66965>>, <<66967,66977>>, <<66979,66993>>, <<66995,67001>>,
       <<67003,67004>>, <<67456,67456>>, <<67459,67461>>, <<67463,67504>>, <<67506,67514>>,
       <<68736,68786>>, <<68800,68850>>, <<71840,71903>>, <<93760,93823>>, <<119808,119892>>,
       <<119894,119964>>, <<119966,119967>>, <<119970,119970>>, <<119973,119974>>,
       <<119977,119980>>, <<119982,119993>>, <<119995,119995>>, <<119997,120003>>,
       <<120005,120069>>, <<120071,120074>>, <<120077,120084>>, <<120086,120092>>,
       <<120094,120121>>, <<120123,120126>>, <<120128,120132>>, <<120134,120134>>,
       <<120138,120144>>, <<120146,120485>>, <<120488,120512>>, <<120514,120538>>,
       <<120540,120570>>, <<120572,120596>>, <<120598,120628>>, <<120630,120654>>,
       <<120656,120686>>, <<120688,120712>>, <<120714,120744>>, <<120746,120770>>,
       <<120772,120779>>, <<122624,122633>>, <<122635,122654>>, <<125184,125251>>,
       <<127280,127305>>, <<127312,127337>>, <<127344,127369>> >>
\* the case-ignorable characters: lower() looks past them around a capital sigma
CaseIgnorable ==
    << <<39,39>>, <<46,46>>, <<58,58>>, <<94,94>>, <<96,96>>, <<168,168>>, <<173,173>>,
       <<175,175>>, <<180,180>>, <<183,184>>, <<688,879>>, <<884,885>>, <<890,890>>, <<900,901>>,
       <<903,903>>, <<1155,1161>>, <<1369,1369>>, <<1375,1375>>, <<1425,1469>>, <<1471,1471>>,
       <<1473,1474>>, <<1476,1477>>, <<1479,1479>>, <<1524,1524>>, <<1536,1541>>, <<1552,1562>>,
       <<1564,1564>>, <<1600,1600>>, <<1611,1631>>, <<1648,1648>>, <<1750,1757>>, <<1759,1768>>,
       <<1770,1773>>, <<1807,1807>>, <<1809,1809>>, <<1840,1866>>, <<1958,1968>>, <<2027,2037>>,
       <<2042,2042>>, <<2045,2045>>, <<2070,2093>>, <<2137,2139>>, <<2184,2184>>, <<2192,2193>>,
       <<2200,2207>>, <<2249,2306>>, <<2362,2362>>, <<2364,2364>>, <<2369,2376>>, <<2381,2381>>,
       <<2385,2391>>, <<2402,2403>>, <<2417,2417>>, <<2433,2433>>, <<2492,2492>>, <<2497,2500>>,
       <<2509,2509>>, <<2530,2531>>, <<2558,2558>>, <<2561,2562>>, <<2620,2620>>, <<2625,2626>>,
       <<2631,2632>>, <<2635,2637>>, <<2641,2641>>, <<2672,2673>>, <<2677,2677>>, <<2689,2690>>,
       <<2748,2748>>, <<2753,2757>>, <<2759,2760>>, <<2765,2765>>, <<2786,2787>>, <<2810,2815>>,
       <<2817,2817>>, <<2876,2876>>, <<2879,2879>>, <<2881,2884>>, <<2893,2893>>, <<2901,2902>>,
       <<2914,2915>>, <<2946,2946>>, <<3008,3008>>, <<3021,3021>>, <<3072,3072>>, <<3076,3076>>,
       <<3132,3132>>, <<3134,3136>>, <<3142,3144>>, <<3146,3149>>, <<3157,3158>>, <<3170,3171>>,
       <<3201,3201>>, <<3260,3260>>, <<3263,3263>>, <<3270,3270>>, <<3276,3277>>, <<3298,3299>>,
       <<3328,3329>>, <<3387,3388>>, <<3393,3396>>, <<3405,3405>>, <<3426,3427>>, <<3457,3457>>,
       <<3530,3530>>, <<3538,3540>>, <<3542,3542>>, <<3633,3633>>, <<3636,3642>>, <<3654,3662>>,
       <<3761,3761>>, <<3764,3772>>, <<3782,3782>>, <<3784,3789>>, <<3864,3865>>, <<3893,3893>>,
       <<3895,3895>>, <<3897,3897>>, <<3953,3966>>, <<3968,3972>>, <<3974,3975>>, <<3981,3991>>,
       <<3993,4028>>, <<4038,4038>>, <<4141,4144>>, <<4146,4151>>, <<4153,4154>>, <<4157,4158>>,
       <<4184,4185>>, <<4190,4192>>, <<4209,4212>>, <<4226,4226>>, <<4229,4230>>, <<4237,4237>>,
       <<4253,4253>>, <<4348,4348>>, <<4957,4959>>, <<5906,5908>>, <<5938,5939>>, <<5970,5971>>,
       <<6002,6003>>, <<6068,6069>>, <<6071,6077>>, <<6086,6086>>, <<6089,6099>>, <<6103,6103>>,
       <<6109,6109>>, <<6155,6159>>, <<6211,6211>>, <<6277,6278>>, <<6313,6313>>, <<6432,6434>>,
       <<6439,6440>>, <<6450,6450>>, <<6457,6459>>, <<6679,6680>>, <<6683,6683>>, <<6742,6742>>,
       <<6744,6750>>, <<6752,6752>>, <<6754,6754>>, <<6757,6764>>, <<6771,6780>>, <<6783,6783>>,
       <<6823,6823>>, <<6832,6862>>, <<6912,6915>>, <<6964,6964>>, <<6966,6970>>, <<6972,6972>>,
       <<6978,6978>>, <<7019,7027>>, <<7040,7041>>, <<7074,7077>>, <<7080,7081>>, <<7083,7085>>,
       <<7142,7142>>, <<7144,7145>>, <<7149,7149>>, <<7151,7153>>, <<7212,7219>>, <<7222,7223>>,
       <<7288,7293>>, <<7376,7378>>, <<7380,7392>>, <<7394,7400>>, <<7405,7405>>, <<7412,7412>>,
       <<7416,7417>>, <<7468,7530>>, <<7544,7544>>, <<7579,7679>>, <<8125,8125>>, <<8127,8129>>,
       <<8141,8143>>, <<8157,8159>>, <<8173,8175>>, <<8189,8190>>, <<8203,8207>>, <<8216,8217>>,
       <<8228,8228>>, <<8231,8231>>, <<8234,8238>>, <<8288,8292>>, <<8294,8303>>, <<8305,8305>>,
       <<8319,8319>>, <<8336,8348>>, <<8400,8432>>, <<11388,11389>>, <<11503,11505>>,
       <<11631,11631>>, <<11647,11647>>, <<11744,11775>>, <<11823,11823>>, <<12293,12293>>,
       <<12330,12333>>, <<12337,12341>>, <<12347,12347>>, <<12441,12446>>, <<12540,12542>>,
       <<40981,40981>>, <<42232,42237>>, <<42508,42508>>, <<42607,42610>>, <<42612,42621>>,
       <<42623,42623>>, <<42652,42655>>, <<42736,42737>>, <<42752,42785>>, <<42864,42864>>,
       <<42888,42890>>, <<42994,42996>>, <<43000,43001>>, <<43010,43010>>, <<43014,43014>>,
       <<43019,43019>>, <<43045,43046>>, <<43052,43052>>, <<43204,43205>>, <<43232,43249>>,
       <<43263,43263>>, <<43302,43309>>, <<43335,43345>>, <<43392,43394>>, <<43443,43443>>,
       <<43446,43449>>, <<43452,43453>>, <<43471,43471>>, <<43493,43494>>, <<43561,43566>>,
       <<43569,43570>>, <<43573,43574>>, <<43587,43587>>, <<43596,43596>>, <<43632,43632>>,
       <<43644,43644>>, <<43696,43696>>, <<43698,43700>>, <<43703,43704>>, <<43710,43711>>,
       <<43713,43713>>, <<43741,43741>>, <<43756,43757>>, <<43763,43764>>, <<43766,43766>>,
       <<43867,43871>>, <<43881,43883>>, <<44005,44005>>, <<44008,44008>>, <<44013,44013>>,
       <<64286,64286>>, <<64434,64450>>, <<65024,65039>>, <<65043,65043>>, <<65056,65071>>,
       <<65106,65106>>, <<65109,65109>>, <<65279,65279>>, <<65287,65287>>, <<65294,65294>>,
       <<65306,65306>>, <<65342,65342>>, <<65344,65344>>, <<65392,65392>>, <<65438,65439>>,
       <<65507,65507>>, <<65529,65531>>, <<66045,66045>>, <<66272,66272>>, <<66422,66426>>,
       <<67456,67461>>, <<67463,67504>>, <<67506,67514>>, <<68097,68099>>, <<68101,68102>>,
       <<68108,68111>>, <<68152,68154>>, <<68159,68159>>, <<68325,68326>>, <<68900,68903>>,
       <<69291,69292>>, <<69446,69456>>, <<69506,69509>>, <<69633,69633>>, <<69688,69702>>,
       <<69744,69744>>, <<69747,69748>>, <<69759,69761>>, <<69811,69814>>, <<69817,69818>>,
       <<69821,69821>>, <<69826,69826>>, <<69837,69837>>, <<69888,69890>>, <<69927,69931>>,
       <<69933,69940>>, <<70003,70003>>, <<70016,70017>>, <<70070,70078>>, <<70089,70092>>,
       <<70095,70095>>, <<70191,70193>>, <<70196,70196>>, <<70198,70199>>, <<70206,70206>>,
       <<70367,70367>>, <<70371,70378>>, <<70400,70401>>, <<70459,70460>>, <<70464,70464>>,
       <<70502,70508>>, <<70512,70516>>, <<70712,70719>>, <<70722,70724>>, <<70726,70726>>,
       <<70750,70750>>, <<70835,70840>>, <<70842,70842>>, <<70847,70848>>, <<70850,70851>>,
       <<71090,71093>>, <<71100,71101>>, <<71103,71104>>, <<71132,71133>>, <<71219,71226>>,
       <<71229,71229>>, <<71231,71232>>, <<71339,71339>>, <<71341,71341>>, <<71344,71349>>,
       <<71351,71351>>, <<71453,71455>>, <<71458,71461>>, <<71463,71467>>, <<71727,71735>>,
       <<71737,71738>>, <<71995,71996>>, <<71998,71998>>, <<72003,72003>>, <<72148,72151>>,
       <<72154,72155>>, <<72160,72160>>, <<72193,72202>>, <<72243,72248>>, <<72251,72254>>,
       <<72263,72263>>, <<72273,72278>>, <<72281,72283>>, <<72330,72342>>, <<72344,72345>>,
       <<72752,72758>>, <<72760,72765>>, <<72767,72767>>, <<72850,72871>>, <<72874,72880>>,
       <<72882,72883>>, <<72885,72886>>, <<73009,73014>>, <<73018,73018>>, <<73020,73021>>,
       <<73023,73029>>, <<73031,73031>>, <<73104,73105>>, <<73109,73109>>, <<73111,73111>>,
       <<73459,73460>>, <<78896,78904>>, <<92912,92916>>, <<92976,92982>>, <<92992,92995>>,
       <<94031,94031>>, <<94095,94111>>, <<94176,94177>>, <<94179,94180>>, <<110576,110579>>,
       <<110581,110587>>, <<110589,110590>>, <<113821,113822>>, <<113824,113827>>,
       <<118528,118573>>, <<118576,118598>>, <<119143,119145>>, <<119155,119170>>,
       <<119173,119179>>, <<119210,119213>>, <<119362,119364>>, <<121344,121398>>,
       <<121403,121452>>, <<121461,121461>>, <<121476,121476>>, <<121499,121503>>,
       <<121505,121519>>, <<122880,122886>>, <<122888,122904>>, <<122907,122913>>,
       <<122915,122916>>, <<122918,122922>>, <<123184,123197>>, <<123566,123566>>,
       <<123628,123631>>, <<125136,125142>>, <<125252,125259>>, <<127995,127999>>,
       <<917505,917505>>, <<917536,917631>>, <<917760,917999>> >>
\* c.isspace(): what strip() removes
Whitespace ==
    << <<9,13>>, <<28,32>>, <<133,133>>, <<160,160>>, <<5760,5760>>, <<8192,8202>>, <<8232,8233>>,
       <<8239,8239>>, <<8287,8287>>, <<12288,12288>> >>
\* the whitespace int() allows around a literal
IntWhitespace ==
    << <<9,13>>, <<32,32>>, <<133,133>>, <<160,160>>, <<5760,5760>>, <<8192,8202>>, <<8232,8233>>,
       <<8239,8239>>, <<8287,8287>>, <<12288,12288>> >>
\* the digit zero of every script; its nine successors are the digits 1 to 9
DecimalZeros ==
    << 48, 1632, 1776, 1984, 2406, 2534, 2662, 2790, 2918, 3046, 3174, 3302, 3430, 3558, 3664,
       3792, 3872, 4160, 4240, 6112, 6160, 6470, 6608, 6784, 6800, 6992, 7088, 7232, 7248, 42528,
       43216, 43264, 43472, 43504, 43600, 44016, 65296, 66720, 68912, 69734, 69872, 69942, 70096,
       70384, 70736, 70864, 71248, 71360, 71472, 71904, 72016, 72784, 73040, 73120, 92768, 92864,
       93008, 120782, 120792, 120802, 120812, 120822, 123200, 123632, 125264, 130032 >>
\* not c.isprintable(): what repr() escapes
NonPrintable ==
    << <<0,31>>, <<127,160>>, <<173,173>>, <<888,889>>, <<896,899>>, <<907,907>>, <<909,909>>,
       <<930,930>>, <<1328,1328>>, <<1367,1368>>, <<1419,1420>>, <<1424,1424>>, <<1480,1487>>,
       <<1515,1518>>, <<1525,1541>>, <<1564,1564>>, <<1757,1757>>, <<1806,1807>>, <<1867,1868>>,
       <<1970,1983>>, <<2043,2044>>, <<2094,2095>>, <<2111,2111>>, <<2140,2141>>, <<2143,2143>>,
       <<2155,2159>>, <<2191,2199>>, <<2274,2274>>, <<2436,2436>>, <<2445,2446>>, <<2449,2450>>,
       <<2473,2473>>, <<2481,2481>>, <<2483,2485>>, <<2490,2491>>, <<2501,2502>>, <<2505,2506>>,
       <<2511,2518>>, <<2520,2523>>, <<2526,2526>>, <<2532,2533>>, <<2559,2560>>, <<2564,2564>>,
       <<2571,2574>>, <<2577,2578>>, <<2601,2601>>, <<2609,2609>>, <<2612,2612>>, <<2615,2615>>,
       <<2618,2619>>, <<2621,2621>>, <<2627,2630>>, <<2633,2634>>, <<2638,2640>>, <<2642,2648>>,
       <<2653,2653>>, <<2655,2661>>, <<2679,2688>>, <<2692,2692>>, <<2702,2702>>, <<2706,2706>>,
       <<2729,2729>>, <<2737,2737>>, <<2740,2740>>, <<2746,2747>>, <<2758,2758>>, <<2762,2762>>,
       <<2766,2767>>, <<2769,2783>>, <<2788,2789>>, <<2802,2808>>, <<2816,2816>>, <<2820,2820>>,
       <<2829,2830>>, <<2833,2834>>, <<2857,2857>>, <<2865,2865>>, <<2868,2868>>, <<2874,2875>>,
       <<2885,2886>>, <<2889,2890>>, <<2894,2900>>, <<2904,2907>>, <<2910,2910>>, <<2916,2917>>,
       <<2936,2945>>, <<2948,2948>>, <<2955,2957>>, <<2961,2961>>, <<2966,2968>>, <<2971,2971>>,
       <<2973,2973>>, <<2976,2978>>, <<2981,2983>>, <<2987,2989>>, <<3002,3005>>, <<3011,3013>>,
       <<3017,3017>>, <<3022,3023>>, <<3025,3030>>, <<3032,3045>>, <<3067,3071>>, <<3085,3085>>,
       <<3089,3089>>, <<3113,3113>>, <<3130,3131>>, <<3141,3141>>, <<3145,3145>>, <<3150,3156>>,
       <<3159,3159>>, <<3163,3164>>, <<3166,3167>>, <<3172,3173>>, <<3184,3190>>, <<3213,3213>>,
       <<3217,3217>>, <<3241,3241>>, <<3252,3252>>, <<3258,3259>>, <<3269,3269>>, <<3273,3273>>,
       <<3278,3284>>, <<3287,3292>>, <<3295,3295>>, <<3300,3301>>, <<3312,3312>>, <<3315,3327>>,
       <<3341,3341>>, <<3345,3345>>, <<3397,3397>>, <<3401,3401>>, <<3408,3411>>, <<3428,3429>>,
       <<3456,3456>>, <<3460,3460>>, <<3479,3481>>, <<3506,3506>>, <<3516,3516>>, <<3518,3519>>,
       <<3527,3529>>, <<3531,3534>>, <<3541,3541>>, <<3543,3543>>, <<3552,3557>>, <<3568,3569>>,
       <<3573,3584>>, <<3643,3646>>, <<3676,3712>>, <<3715,3715>>, <<3717,3717>>, <<3723,3723>>,
       <<3748,3748>>, <<3750,3750>>, <<3774,3775>>, <<3781,3781>>, <<3783,3783>>, <<3790,3791>>,
       <<3802,3803>>, <<3808,3839>>, <<3912,3912>>, <<3949,3952>>, <<3992,3992>>, <<4029,4029>>,
       <<4045,4045>>, <<4059,4095>>, <<4294,4294>>, <<4296,4300>>, <<4302,4303>>, <<4681,4681>>,
       <<4686,4687>>, <<4695,4695>>, <<4697,4697>>, <<4702,4703>>, <<4745,4745>>, <<4750,4751>>,
       <<4785,4785>>, <<4790,4791>>, <<4799,4799>>, <<4801,4801>>, <<4806,4807>>, <<4823,4823>>,
       <<4881,4881>>, <<4886,4887>>, <<4955,4956>>, <<4989,4991>>, <<5018,5023>>, <<5110,5111>>,
       <<5118,5119>>, <<5760,5760>>, <<5789,5791>>, <<5881,5887>>, <<5910,5918>>, <<5943,5951>>,
       <<5972,5983>>, <<5997,5997>>, <<6001,6001>>, <<6004,6015>>, <<6110,6111>>, <<6122,6127>>,
       <<6138,6143>>, <<6158,6158>>, <<6170,6175>>, <<6265,6271>>, <<6315,6319>>, <<6390,6399>>,
       <<6431,6431>>, <<6444,6447>>, <<6460,6463>>, <<6465,6467>>, <<6510,6511>>, <<6517,6527>>,
       <<6572,6575>>, <<6602,6607>>, <<6619,6621>>, <<6684,6685>>, <<6751,6751>>, <<6781,6782>>,
       <<6794,6799>>, <<6810,6815>>, <<6830,6831>>, <<6863,6911>>, <<6989,6991>>, <<7039,7039>>,
       <<7156,7163>>, <<7224,7226>>, <<7242,7244>>, <<7305,7311>>, <<7355,7356>>, <<7368,7375>>,
       <<7419,7423>>, <<7958,7959>>, <<7966,7967>>, <<8006,8007>>, <<8014,8015>>, <<8024,8024>>,
       <<8026,8026>>, <<8028,8028>>, <<8030,8030>>, <<8062,8063>>, <<8117,8117>>, <<8133,8133>>,
       <<8148,8149>>, <<8156,8156>>, <<8176,8177>>, <<8181,8181>>, <<8191,8207>>, <<8232,8239>>,
       <<8287,8303>>, <<8306,8307>>, <<8335,8335>>, <<8349,8351>>, <<8385,8399>>, <<8433,8447>>,
       <<8588,8591>>, <<9255,9279>>, <<9291,9311>>, <<11124,11125>>, <<11158,11158>>,
       <<11508,11512>>, <<11558,11558>>, <<11560,11564>>, <<11566,11567>>, <<11624,11630>>,
       <<11633,11646>>, <<11671,11679>>, <<11687,11687>>, <<11695,11695>>, <<11703,11703>>,
       <<11711,11711>>, <<11719,11719>>, <<11727,11727>>, <<11735,11735>>, <<11743,11743>>,
       <<11870,11903>>, <<11930,11930>>, <<12020,12031>>, <<12246,12271>>, <<12284,12288>>,
       <<12352,12352>>, <<12439,12440>>, <<12544,12548>>, <<12592,12592>>, <<12687,12687>>,
       <<12772,12783>>, <<12831,12831>>, <<42125,42127>>, <<42183,42191>>, <<42540,42559>>,
       <<42744,42751>>, <<42955,42959>>, <<42962,42962>>, <<42964,42964>>, <<42970,42993>>,
       <<43053,43055>>, <<43066,43071>>, <<43128,43135>>, <<43206,43213>>, <<43226,43231>>,
       <<43348,43358>>, <<43389,43391>>, <<43470,43470>>, <<43482,43485>>, <<43519,43519>>,
       <<43575,43583>>, <<43598,43599>>, <<43610,43611>>, <<43715,43738>>, <<43767,43776>>,
       <<43783,43784>>, <<43791,43792>>, <<43799,43807>>, <<43815,43815>>, <<43823,43823>>,
       <<43884,43887>>, <<44014,44015>>, <<44026,44031>>, <<55204,55215>>, <<55239,55242>>,
       <<55292,63743>>, <<64110,64111>>, <<64218,64255>>, <<64263,64274>>, <<64280,64284>>,
       <<64311,64311>>, <<64317,64317>>, <<64319,64319>>, <<64322,64322>>, <<64325,64325>>,
       <<64451,64466>>, <<64912,64913>>, <<64968,64974>>, <<64976,65007>>, <<65050,65055>>,
       <<65107,65107>>, <<65127,65127>>, <<65132,65135>>, <<65141,65141>>, <<65277,65280>>,
       <<65471,65473>>, <<65480,65481>>, <<65488,65489>>, <<65496,65497>>, <<65501,65503>>,
       <<65511,65511>>, <<65519,65531>>, <<65534,65535>>, <<65548,65548>>, <<65575,65575>>,
       <<65595,65595>>, <<65598,65598>>, <<65614,65615>>, <<65630,65663>>, <<65787,65791>>,
       <<65795,65798>>, <<65844,65846>>, <<65935,65935>>, <<65949,65951>>, <<65953,65999>>,
       <<66046,66175>>, <<66205,66207>>, <<66257,66271>>, <<66300,66303>>, <<66340,66348>>,
       <<66379,66383>>, <<66427,66431>>, <<66462,66462>>, <<66500,66503>>, <<66518,66559>>,
       <<66718,66719>>, <<66730,66735>>, <<66772,66775>>, <<66812,66815>>, <<66856,66863>>,
       <<66916,66926>>, <<66939,66939>>, <<66955,66955>>, <<66963,66963>>, <<66966,66966>>,
       <<66978,66978>>, <<66994,66994>>, <<67002,67002>>, <<67005,67071>>, <<67383,67391>>,
       <<67414,67423>>, <<67432,67455>>, <<67462,67462>>, <<67505,67505>>, <<67515,67583>>,
       <<67590,67591>>, <<67593,67593>>, <<67638,67638>>, <<67641,67643>>, <<67645,67646>>,
       <<67670,67670>>, <<67743,67750>>, <<67760,67807>>, <<67827,67827>>, <<67830,67834>>,
       <<67868,67870>>, <<67898,67902>>, <<67904,67967>>, <<68024,68027>>, <<68048,68049>>,
       <<68100,68100>>, <<68103,68107>>, <<68116,68116>>, <<68120,68120>>, <<68150,68151>>,
       <<68155,68158>>, <<68169,68175>>, <<68185,68191>>, <<68256,68287>>, <<68327,68330>>,
       <<68343,68351>>, <<68406,68408>>, <<68438,68439>>, <<68467,68471>>, <<68498,68504>>,
       <<68509,68520>>, <<68528,68607>>, <<68681,68735>>, <<68787,68799>>, <<68851,68857>>,
       <<68904,68911>>, <<68922,69215>>, <<69247,69247>>, <<69290,69290>>, <<69294,69295>>,
       <<69298,69375>>, <<69416,69423>>, <<69466,69487>>, <<69514,69551>>, <<69580,69599>>,
       <<69623,69631>>, <<69710,69713>>, <<69750,69758>>, <<69821,69821>>, <<69827,69839>>,
       <<69865,69871>>, <<69882,69887>>, <<69941,69941>>, <<69960,69967>>, <<70007,70015>>,
       <<70112,70112>>, <<70133,70143>>, <<70162,70162>>, <<70207,70271>>, <<70279,70279>>,
       <<70281,70281>>, <<70286,70286>>, <<70302,70302>>, <<70314,70319>>, <<70379,70383>>,
       <<70394,70399>>, <<70404,70404>>, <<70413,70414>>, <<70417,70418>>, <<70441,70441>>,
       <<70449,70449>>, <<70452,70452>>, <<70458,70458>>, <<70469,70470>>, <<70473,70474>>,
       <<70478,70479>>, <<70481,70486>>, <<70488,70492>>, <<70500,70501>>, <<70509,70511>>,
       <<70517,70655>>, <<70748,70748>>, <<70754,70783>>, <<70856,70863>>, <<70874,71039>>,
       <<71094,71095>>, <<71134,71167>>, <<71237,71247>>, <<71258,71263>>, <<71277,71295>>,
       <<71354,71359>>, <<71370,71423>>, <<71451,71452>>, <<71468,71471>>, <<71495,71679>>,
       <<71740,71839>>, <<71923,71934>>, <<71943,71944>>, <<71946,71947>>, <<71956,71956>>,
       <<71959,71959>>, <<71990,71990>>, <<71993,71994>>, <<72007,72015>>, <<72026,72095>>,
       <<72104,72105>>, <<72152,72153>>, <<72165,72191>>, <<72264,72271>>, <<72355,72367>>,
       <<72441,72703>>, <<72713,72713>>, <<72759,72759>>, <<72774,72783>>, <<72813,72815>>,
       <<72848,72849>>, <<72872,72872>>, <<72887,72959>>, <<72967,72967>>, <<72970,72970>>,
       <<73015,73017>>, <<73019,73019>>, <<73022,73022>>, <<73032,73039>>, <<73050,73055>>,
       <<73062,73062>>, <<73065,73065>>, <<73103,73103>>, <<73106,73106>>, <<73113,73119>>,
       <<73130,73439>>, <<73465,73647>>, <<73649,73663>>, <<73714,73726>>, <<74650,74751>>,
       <<74863,74863>>, <<74869,74879>>, <<75076,77711>>, <<77811,77823>>, <<78895,82943>>,
       <<83527,92159>>, <<92729,92735>>, <<92767,92767>>, <<92778,92781>>, <<92863,92863>>,
       <<92874,92879>>, <<92910,92911>>, <<92918,92927>>, <<92998,93007>>, <<93018,93018>>,
       <<93026,93026>>, <<93048,93052>>, <<93072,93759>>, <<93851,93951>>, <<94027,94030>>,
       <<94088,94094>>, <<94112,94175>>, <<94181,94191>>, <<94194,94207>>, <<100344,100351>>,
       <<101590,101631>>, <<101641,110575>>, <<110580,110580>>, <<110588,110588>>,
       <<110591,110591>>, <<110883,110927>>, <<110931,110947>>, <<110952,110959>>,
       <<111356,113663>>, <<113771,113775>>, <<113789,113791>>, <<113801,113807>>,
       <<113818,113819>>, <<113824,118527>>, <<118574,118575>>, <<118599,118607>>,
       <<118724,118783>>, <<119030,119039>>, <<119079,119080>>, <<119155,119162>>,
       <<119275,119295>>, <<119366,119519>>, <<119540,119551>>, <<119639,119647>>,
       <<119673,119807>>, <<119893,119893>>, <<119965,119965>>, <<119968,119969>>,
       <<119971,119972>>, <<119975,119976>>, <<119981,119981>>, <<119994,119994>>,
       <<119996,119996>>, <<120004,120004>>, <<120070,120070>>, <<120075,120076>>,
       <<120085,120085>>, <<120093,120093>>, <<120122,120122>>, <<120127,120127>>,
       <<120133,120133>>, <<120135,120137>>, <<120145,120145>>, <<120486,120487>>,
       <<120780,120781>>, <<121484,121498>>, <<121504,121504>>, <<121520,122623>>,
       <<122655,122879>>, <<122887,122887>>, <<122905,122906>>, <<122914,122914>>,
       <<122917,122917>>, <<122923,123135>>, <<123181,123183>>, <<123198,123199>>,
       <<123210,123213>>, <<123216,123535>>, <<123567,123583>>, <<123642,123646>>,
       <<123648,124895>>, <<124903,124903>>, <<124908,124908>>, <<124911,124911>>,
       <<124927,124927>>, <<125125,125126>>, <<125143,125183>>, <<125260,125263>>,
       <<125274,125277>>, <<125280,126064>>, <<126133,126208>>, <<126270,126463>>,
       <<126468,126468>>, <<126496,126496>>, <<126499,126499>>, <<126501,126502>>,
       <<126504,126504>>, <<126515,126515>>, <<126520,126520>>, <<126522,126522>>,
       <<126524,126529>>, <<126531,126534>>, <<126536,126536>>, <<126538,126538>>,
       <<126540,126540>>, <<126544,126544>>, <<126547,126547>>, <<126549,126550>>,
       <<126552,126552>>, <<126554,126554>>, <<126556,126556>>, <<126558,126558>>,
       <<126560,126560>>, <<126563,126563>>, <<126565,126566>>, <<126571,126571>>,
       <<126579,126579>>, <<126584,126584>>, <<126589,126589>>, <<126591,126591>>,
       <<126602,126602>>, <<126620,126624>>, <<126628,126628>>, <<126634,126634>>,
       <<126652,126703>>, <<126706,126975>>, <<127020,127023>>, <<127124,127135>>,
       <<127151,127152>>, <<127168,127168>>, <<127184,127184>>, <<127222,127231>>,
       <<127406,127461>>, <<127491,127503>>, <<127548,127551>>, <<127561,127567>>,
       <<127570,127583>>, <<127590,127743>>, <<128728,128732>>, <<128749,128751>>,
       <<128765,128767>>, <<128884,128895>>, <<128985,128991>>, <<129004,129007>>,
       <<129009,129023>>, <<129036,129039>>, <<129096,129103>>, <<129114,129119>>,
       <<129160,129167>>, <<129198,129199>>, <<129202,129279>>, <<129620,129631>>,
       <<129646,129647>>, <<129653,129655>>, <<129661,129663>>, <<129671,129679>>,
       <<129709,129711>>, <<129723,129727>>, <<129734,129743>>, <<129754,129759>>,
       <<129768,129775>>, <<129783,129791>>, <<129939,129939>>, <<129995,130031>>,
       <<130042,131071>>, <<173792,173823>>, <<177977,177983>>, <<178206,178207>>,
       <<183970,183983>>, <<191457,194559>>, <<195102,196607>>, <<201547,917759>>,
       <<918000,1114111>> >>

IsCased(c) == InRanges(c, Cased)
IsCaseIgnorable(c) == InRanges(c, CaseIgnorable)
IsSpace(c) == InRanges(c, Whitespace)
IsIntSpace(c) == InRanges(c, IntWhitespace)
IsDecimal(c) == \E i \in DOMAIN DecimalZeros : DecimalZeros[i] <= c /\ c <= DecimalZeros[i] + 9
DecimalVal(c) == c - DecimalZeros[CHOOSE i \in DOMAIN DecimalZeros :
                                      DecimalZeros[i] <= c /\ c <= DecimalZeros[i] + 9]
IsPrintable(c) == ~InRanges(c, NonPrintable)
IsDigit(c) == 48 <= c /\ c <= 57

\* the lower-case and the title-case text of one character
LowerFull(c) ==
    IF Special(c, LowerSpecial) THEN SpecialOf(c, LowerSpecial)
    ELSE IF Mapped(c, LowerMap) THEN <<MapOf(c, LowerMap)>>
    ELSE <<c>>
TitleFull(c) ==
    IF Special(c, TitleSpecial) THEN SpecialOf(c, TitleSpecial)
    ELSE IF Mapped(c, TitleMap) THEN <<MapOf(c, TitleMap)>>
    ELSE <<c>>

\* the nearest character that is not case-ignorable, going from position i
\* by steps of d, is cased
RECURSIVE NextToCased(_, _, _)
NextToCased(s, i, d) ==
    IF i < 1 \/ i > Len(s) THEN FALSE
    ELSE IF IsCaseIgnorable(s[i]) THEN NextToCased(s, i + d, d)
    ELSE IsCased(s[i])

\* the lower-case text of the character at position i: a capital sigma
\* (931) that ends a word is the final sigma (962), any other the small
\* sigma (963)
LowerAt(s, i) ==
    IF s[i] = 931
    THEN IF NextToCased(s, i - 1, -1) /\ ~NextToCased(s, i + 1, 1) THEN <<962>> ELSE <<963>>
    ELSE LowerFull(s[i])

\* str.lower()
RECURSIVE LowerFromPos(_, _)
LowerFromPos(s, i) == IF i > Len(s) THEN <<>> ELSE LowerAt(s, i) \o LowerFromPos(s, i + 1)
Lower(s) == LowerFromPos(s, 1)

\* str.title(): a character that follows a cased one is lower-cased, any
\* other is title-cased
RECURSIVE TitleFromPos(_, _)
TitleFromPos(s, i) ==
    IF i > Len(s) THEN <<>>
    ELSE (IF i > 1 /\ IsCased(s[i - 1]) THEN LowerAt(s, i) ELSE TitleFull(s[i]))
         \o TitleFromPos(s, i + 1)
Title(s) == TitleFromPos(s, 1)

\* str.capitalize(): the first character title-cased, the rest lower-cased
Capitalize(s) == IF s = <<>> THEN <<>> ELSE TitleFull(s[1]) \o LowerFromPos(s, 2)

\* str.replace(a, b) for one-character a and b
Replace(s, a, b) == [i \in 1..Len(s) |-> IF s[i] = a THEN b ELSE s[i]]

\* str.strip()
RECURSIVE LStrip(_)
LStrip(s) == IF s # <<>> /\ IsSpace(Head(s)) THEN LStrip(Tail(s)) ELSE s
RECURSIVE RStrip(_)
RStrip(s) == IF s # <<>> /\ IsSpace(s[Len(s)]) THEN RStrip(SubSeq(s, 1, Len(s) - 1)) ELSE s
Strip(s) == RStrip(LStrip(s))

\* sub in s
Contains(sub, s) ==
    \E i \in 0..(Len(s) - Len(sub)) : SubSeq(s, i + 1, i + Len(sub)) = sub

\* s.split(sep)[0] for a one-character sep
RECURSIVE SplitFirst(_, _)
SplitFirst(s, sep) ==
    IF s = <<>> \/ Head(s) = sep THEN <<>> ELSE <<Head(s)>> \o SplitFirst(Tail(s), sep)

\* sep.join(parts)
RECURSIVE Join(_, _)
Join(sep, parts) ==
    IF parts = <<>> THEN <<>>
    ELSE IF Len(parts) = 1 THEN parts[1]
    ELSE parts[1] \o sep \o Join(sep, Tail(parts))

\* str(n) for an integer n
RECURSIVE NatToStr(_)
NatToStr(n) == IF n < 10 THEN <<48 + n>>   \* "0" is 48
               ELSE NatToStr(n \div 10) \o <<48 + (n % 10)>>
IntToStr(n) == IF n < 0 THEN <<45>> \o NatToStr(-n) ELSE NatToStr(n)   \* "-"

\* int(s) for a string s: surrounding whitespace is dropped, one sign is
\* allowed, and what remains must be decimal digits of any script, single
\* underscores allowed between two digits, and no more digits (leading
\* zeros counted, underscores not) than sys.get_int_max_str_digits(), 4300
\* unless changed; anything else raises ValueError.
MaxStrDigits == 4300
RECURSIVE IntLStrip(_)
IntLStrip(s) == IF s # <<>> /\ IsIntSpace(Head(s)) THEN IntLStrip(Tail(s)) ELSE s
RECURSIVE IntRStrip(_)
IntRStrip(s) ==
    IF s # <<>> /\ IsIntSpace(s[Len(s)]) THEN IntRStrip(SubSeq(s, 1, Len(s) - 1)) ELSE s
IntStrip(s) == IntRStrip(IntLStrip(s))
RECURSIVE DigitsVal(_)
DigitsVal(s) == IF s = <<>> THEN 0
                ELSE DigitsVal(SubSeq(s, 1, Len(s) - 1)) * 10 + DecimalVal(s[Len(s)])
\* a leading "-" (45) or "+" (43)
Unsigned(s) == IF s # <<>> /\ (Head(s) = 45 \/ Head(s) = 43) THEN Tail(s) ELSE s
IsIntLiteral(s) ==
    LET u == Unsigned(IntStrip(s))
    IN  /\ u # <<>>
        /\ \A i \in 1..Len(u) :
              \/ IsDecimal(u[i])
              \/ /\ u[i] = 95   \* "_"
                 /\ 1 < i /\ i < Len(u)
                 /\ IsDecimal(u[i - 1]) /\ IsDecimal(u[i + 1])
        /\ Len(SelectSeq(u, IsDecimal)) <= MaxStrDigits
ParseInt(s) ==
    LET t == IntStrip(s)
        d == SelectSeq(Unsigned(t), IsDecimal)
    IN  IF t # <<>> /\ Head(t) = 45 THEN -DigitsVal(d) ELSE DigitsVal(d)

(***************************************************************************)
(* JSON values                                                             *)
(***************************************************************************)
JNull        == [t |-> "null", s |-> <<>>, n |-> 0, items |-> <<>>, kv |-> <<>>]
JStr(s)      == [t |-> "str",  s |-> s,    n |-> 0, items |-> <<>>, kv |-> <<>>]
JInt(n)      == [t |-> "int",  s |-> <<>>, n |-> n, items |-> <<>>, kv |-> <<>>]
JList(items) == [t |-> "list", s |-> <<>>, n |-> 0, items |-> items, kv |-> <<>>]
JDict(kv)    == [t |-> "dict", s |-> <<>>, n |-> 0, items |-> <<>>, kv |-> kv]
\* True and False: n is 1 and 0
JBool(b)     == [t |-> "bool", s |-> <<>>, n |-> IF b THEN 1 ELSE 0, items |-> <<>>, kv |-> <<>>]
\* a float: s is its repr and n is its integer part (0 for nan and inf)
JFloat(s, n) == [t |-> "float", s |-> s, n |-> n, items |-> <<>>, kv |-> <<>>]
KV(k, v)     == [k |-> k, v |-> v]

IsStr(v)  == v.t = "str"
IsInt(v)  == v.t = "int"
IsList(v) == v.t = "list"
IsDict(v) == v.t = "dict"
IsBool(v) == v.t = "bool"
IsFloat(v) == v.t = "float"

\* bool(v)
Truthy(v) ==
    CASE v.t = "null" -> FALSE
      [] v.t = "str"  -> v.s # <<>>
      [] v.t = "int"  -> v.n # 0
      [] v.t = "list" -> v.items # <<>>
      [] v.t = "dict" -> v.kv # <<>>
      [] v.t = "bool" -> v.n = 1
      [] v.t = "float" -> v.s \notin {<<48, 46, 48>>, <<45, 48, 46, 48>>}

\* a or b
Or(a, b) == IF Truthy(a) THEN a ELSE b

\* k in d
Has(d, k) == \E i \in 1..Len(d.kv) : d.kv[i].k = k
\* d.get(k, dflt)
GetD(d, k, dflt) ==
    IF Has(d, k) THEN d.kv[CHOOSE i \in 1..Len(d.kv) : d.kv[i].k = k].v ELSE dflt
\* d.get(k)
Get(d, k) == GetD(d, k, JNull)

s_None == <<78,111,110,101>>  \* "None"
s_True == <<84,114,117,101>>  \* "True"
s_False == <<70,97,108,115,101>>  \* "False"

\* repr(s) of a string: in single quotes, unless it holds a single quote and
\* no double quote; the quote in use and the backslash are escaped, and so
\* are the characters that do not print: \t, \n and \r by name, the others
\* as \xhh, \uhhhh or \Uhhhhhhhh
ReprQuote(s) == IF Contains(<<39>>, s) /\ ~Contains(<<34>>, s) THEN 34 ELSE 39   \* " else '
HexDigit(d) == IF d < 10 THEN 48 + d ELSE 87 + d   \* "0".."9", "a".."f"
RECURSIVE Hex(_, _)
Hex(n, width) == IF width = 0 THEN <<>> ELSE Hex(n \div 16, width - 1) \o <<HexDigit(n % 16)>>
ReprChar(c, quote) ==
    IF c = quote \/ c = 92 THEN <<92, c>>            \* backslash, then the character
    ELSE IF c = 9 THEN <<92, 116>>                    \* \t
    ELSE IF c = 10 THEN <<92, 110>>                   \* \n
    ELSE IF c = 13 THEN <<92, 114>>                   \* \r
    ELSE IF IsPrintable(c) THEN <<c>>
    ELSE IF c < 256 THEN <<92, 120>> \o Hex(c, 2)     \* \x
    ELSE IF c < 65536 THEN <<92, 117>> \o Hex(c, 4)   \* \u
    ELSE <<92, 85>> \o Hex(c, 8)                      \* \U
RECURSIVE ReprChars(_, _)
ReprChars(s, quote) ==
    IF s = <<>> THEN <<>> ELSE ReprChar(Head(s), quote) \o ReprChars(Tail(s), quote)
ReprStr(s) == <<ReprQuote(s)>> \o ReprChars(s, ReprQuote(s)) \o <<ReprQuote(s)>>

\* repr(v): the entries of a list or a dict separated by ", ", a dict entry
\* as key: value
RECURSIVE Repr(_)
RECURSIVE ReprItems(_)
RECURSIVE ReprEntries(_)
Repr(v) ==
    CASE IsStr(v)  -> ReprStr(v.s)
      [] IsInt(v)  -> IntToStr(v.n)
      [] v.t = "null" -> s_None
      [] IsBool(v) -> IF v.n = 1 THEN s_True ELSE s_False
      [] IsFloat(v) -> v.s
      [] IsList(v) -> <<91>> \o ReprItems(v.items) \o <<93>>
      [] IsDict(v) -> <<123>> \o ReprEntries(v.kv) \o <<125>>
ReprItems(items) ==
    IF items = <<>> THEN <<>>
    ELSE Repr(Head(items))
         \o (IF Len(items) > 1 THEN <<44, 32>> \o ReprItems(Tail(items)) ELSE <<>>)  \* ", "
ReprEntries(kv) ==
    IF kv = <<>> THEN <<>>
    ELSE ReprStr(Head(kv).k) \o <<58, 32>> \o Repr(Head(kv).v)  \* ": "
         \o (IF Len(kv) > 1 THEN <<44, 32>> \o ReprEntries(Tail(kv)) ELSE <<>>)  \* ", "

\* str(v) and f"{v}": the text of a string, the repr of anything else
Format(v) == IF IsStr(v) THEN v.s ELSE Repr(v)

(***************************************************************************)
(* Field names read by the client                                          *)
(***************************************************************************)
k_name   == <<110,97,109,101>>  \* "name"
k_title  == <<116,105,116,108,101>>  \* "title"
k_weapon == <<119,101,97,112,111,110>>  \* "weapon"
k_vision == <<118,105,115,105,111,110>>  \* "vision"
k_element == <<101,108,101,109,101,110,116>>  \* "element"
k_weapon_type == <<119,101,97,112,111,110,95,116,121,112,101>>  \* "weapon_type"
k_rarity == <<114,97,114,105,116,121>>  \* "rarity"
k_description == <<100,101,115,99,114,105,112,116,105,111,110>>  \* "description"
k_talents == <<116,97,108,101,110,116,115>>  \* "talents"
k_skills == <<115,107,105,108,108,115>>  \* "skills"
k_talent_priority == <<116,97,108,101,110,116,95,112,114,105,111,114,105,116,121>>  \* "talent_priority"
k_priority == <<112,114,105,111,114,105,116,121>>  \* "priority"
k_info == <<105,110,102,111>>  \* "info"
k_recommended_weapons == <<114,101,99,111,109,109,101,110,100,101,100,95,119,101,97,112,111,110,115>>  \* "recommended_weapons"
k_best_weapons == <<98,101,115,116,95,119,101,97,112,111,110,115>>  \* "best_weapons"
k_weapons == <<119,101,97,112,111,110,115>>  \* "weapons"
k_weapon_recommendations == <<119,101,97,112,111,110,95,114,101,99,111,109,109,101,110,100,97,116,105,111,110,115>>  \* "weapon_recommendations"
k_recommended_artifacts == <<114,101,99,111,109,109,101,110,100,101,100,95,97,114,116,105,102,97,99,116,115>>  \* "recommended_artifacts"
k_artifacts == <<97,114,116,105,102,97,99,116,115>>  \* "artifacts"
k_artifact_recommendations == <<97,114,116,105,102,97,99,116,95,114,101,99,111,109,109,101,110,100,97,116,105,111,110,115>>  \* "artifact_recommendations"
k_recommended_sets == <<114,101,99,111,109,109,101,110,100,101,100,95,115,101,116,115>>  \* "recommended_sets"
k_id == <<105,100>>  \* "id"
k_experience == <<101,120,112,101,114,105,101,110,99,101>>  \* "experience"
k_characters == <<99,104,97,114,97,99,116,101,114,115>>  \* "characters"
k_items == <<105,116,101,109,115>>  \* "items"
k_type == <<116,121,112,101>>  \* "type"
k_slug == <<115,108,117,103>>  \* "slug"
k_2pc == <<50,112,99>>  \* "2pc"
k_two_pc == <<116,119,111,95,112,99>>  \* "two_pc"
k_two_piece_bonus == <<116,119,111,95,112,105,101,99,101,95,98,111,110,117,115>>  \* "two_piece_bonus"
k_2_piece_bonus == <<50,95,112,105,101,99,101,95,98,111,110,117,115>>  \* "2_piece_bonus"
k_4pc == <<52,112,99>>  \* "4pc"
k_four_pc == <<102,111,117,114,95,112,99>>  \* "four_pc"
k_four_piece_bonus == <<102,111,117,114,95,112,105,101,99,101,95,98,111,110,117,115>>  \* "four_piece_bonus"
k_4_piece_bonus == <<52,95,112,105,101,99,101,95,98,111,110,117,115>>  \* "4_piece_bonus"

\* endpoint paths
p_characters == <<47,99,104,97,114,97,99,116,101,114,115>>  \* "/characters"
p_materials == <<47,109,97,116,101,114,105,97,108,115>>  \* "/materials"
p_weapons == <<47,119,101,97,112,111,110,115>>  \* "/weapons"
p_artifacts == <<47,97,114,116,105,102,97,99,116,115>>  \* "/artifacts"
q_lang_en == <<63,108,97,110,103,61,101,110>>  \* "?lang=en"

(***************************************************************************)
(* fetch_characters.normalize_recommendations                              *)
(***************************************************************************)
ApiRecommendation(name, ranking) == [name |-> name, ranking |-> ranking]

\* the name of the entry at position idx of a dict: its value when that is
\* a string, else its key
RecDictName(raw, idx) ==
    IF IsStr(raw.kv[idx].v) THEN raw.kv[idx].v ELSE JStr(raw.kv[idx].k)

\* the name of the entry at position idx of a list
RecListName(raw, idx) ==
    LET item == raw.items[idx]
    IN  IF IsDict(item)
        THEN Or(Or(Get(item, k_name), Get(item, k_title)), Get(item, k_weapon))
        ELSE item

\* ranking=idx + 1 of the entry at enumerate index idx; the loops below count
\* positions from 1, so pos = idx + 1
RecRanking(pos) == pos

RECURSIVE RecDictLoop(_, _)
RecDictLoop(raw, idx) ==
    IF idx > Len(raw.kv) THEN <<>>
    ELSE LET name == RecDictName(raw, idx)
         IN  (IF Truthy(name) THEN <<ApiRecommendation(Format(name), RecRanking(idx))>> ELSE <<>>)
             \o RecDictLoop(raw, idx + 1)

RECURSIVE RecListLoop(_, _)
RecListLoop(raw, idx) ==
    IF idx > Len(raw.items) THEN <<>>
    ELSE LET name == RecListName(raw, idx)
         IN  (IF Truthy(name) THEN <<ApiRecommendation(Format(name), RecRanking(idx))>> ELSE <<>>)
             \o RecListLoop(raw, idx + 1)

normalize_recommendations(raw) ==
    CASE IsDict(raw) -> RecDictLoop(raw, 1)
      [] IsList(raw) -> RecListLoop(raw, 1)
      [] IsStr(raw)  -> <<ApiRecommendation(raw.s, 1)>>
      [] OTHER       -> <<>>

(***************************************************************************)
(* Exceptions.  A helper that can raise comes with an operator giving the  *)
(* exception it raises on an input ("none" when it returns).               *)
(***************************************************************************)
\* the first exception of a sequence of evaluations, in evaluation order
RECURSIVE FirstExc(_)
FirstExc(excs) ==
    IF excs = <<>> THEN "none"
    ELSE IF Head(excs) # "none" THEN Head(excs)
    ELSE FirstExc(Tail(excs))

\* int(v): ValueError for a string that is no integer literal and for nan,
\* OverflowError for an infinity, TypeError for None, a list or a dict
s_nan == <<110,97,110>>  \* "nan"
s_inf == <<105,110,102>>  \* "inf"
IntExc(v) ==
    CASE IsInt(v) \/ IsBool(v) -> "none"
      [] IsStr(v) -> IF IsIntLiteral(v.s) THEN "none" ELSE "ValueError"
      [] IsFloat(v) -> IF v.s = s_nan THEN "ValueError"
                       ELSE IF v.s \in {s_inf, <<45>> \o s_inf} THEN "OverflowError"
                       ELSE "none"
      [] OTHER    -> "TypeError"
IntOf(v) == IF IsStr(v) THEN ParseInt(v.s) ELSE v.n

\* v.lower(), v.replace(...): AttributeError unless v is a string
StrMethodExc(v) == IF IsStr(v) THEN "none" ELSE "AttributeError"
\* v.get(...): AttributeError unless v is a dict
DictMethodExc(v) == IF IsDict(v) THEN "none" ELSE "AttributeError"

(***************************************************************************)
(* GenshinApiClient._get_json                                              *)
(* The remote API is a sequence of routes [path, status, body]; a path it  *)
(* does not serve is answered 404.                                         *)
(***************************************************************************)
Served(up, path) == \E i \in 1..Len(up) : up[i].path = path
Route(up, path) ==
    IF Served(up, path) THEN up[CHOOSE i \in 1..Len(up) : up[i].path = path]
    ELSE [path |-> path, status |-> 404, body |-> JNull]

\* response.raise_for_status() raises HTTPError for a 4xx or 5xx status
RaiseForStatus(status) == status >= 400 /\ status < 600

\* a plausible slip: raise_for_status() left out, a failure answer parsed
\* like any other
get_json_unchecked(up, path) == [ok |-> TRUE, body |-> Route(up, path).body]

\* response = session.get(...); response.raise_for_status(); response.json()
get_json(up, path) ==
    [ok |-> ~RaiseForStatus(Route(up, path).status), body |-> Route(up, path).body]

\* the outcome of a fetch operation: the exception it raised ("none" when
\* it returned), the list it returned, and the GET requests it issued
Returned(value, gets) == [raised |-> "none", value |-> value, gets |-> gets]
Raised(exc, gets)     == [raised |-> exc,    value |-> <<>>,  gets |-> gets]

\* list(d.keys())
RECURSIVE Keys(_)
Keys(kv) == IF kv = <<>> THEN <<>> ELSE <<JStr(Head(kv).k)>> \o Keys(Tail(kv))

\* the index of an endpoint: the keys of a dict, the entries of a list,
\* nothing otherwise
IndexOf(body) ==
    IF IsDict(body) THEN Keys(body.kv)
    ELSE IF IsList(body) THEN body.items
    ELSE <<>>

(***************************************************************************)
(* fetch_characters.normalize_talents                                      *)
(***************************************************************************)
ApiTalent(name, description, priority) ==
    [name |-> name, description |-> description, priority |-> priority]

\* priority_lookup[name.lower()] = idx + 1 over the string entries of the
\* priority list; a later entry of the same lower-cased name overrides
RawPriority(detail) ==
    Or(Or(Get(detail, k_talent_priority), Get(detail, k_priority)), JList(<<>>))
PriorityKeys(detail) ==
    IF IsList(RawPriority(detail))
    THEN { Lower(RawPriority(detail).items[i].s) :
             i \in {j \in 1..Len(RawPriority(detail).items) :
                       IsStr(RawPriority(detail).items[j])} }
    ELSE {}
PriorityLookup(detail, key) ==
    CHOOSE i \in 1..Len(RawPriority(detail).items) :
        /\ IsStr(RawPriority(detail).items[i])
        /\ Lower(RawPriority(detail).items[i].s) = key
        /\ \A j \in (i + 1)..Len(RawPriority(detail).items) :
              ~(IsStr(RawPriority(detail).items[j])
                /\ Lower(RawPriority(detail).items[j].s) = key)

\* raw_talents.values() is neither a list nor a tuple, so a dict of talents
\* iterates over nothing
TalentIterable(detail) ==
    LET raw_talents == Or(Or(Get(detail, k_talents), Get(detail, k_skills)), JList(<<>>))
    IN  IF IsList(raw_talents) THEN raw_talents.items ELSE <<>>

TalentName(talent) ==
    IF IsDict(talent) THEN Or(Get(talent, k_name), Get(talent, k_title))
    ELSE JStr(Format(talent))
TalentDescription(talent) ==
    IF IsDict(talent)
    THEN Or(Or(Get(talent, k_description), Get(talent, k_info)), JStr(<<>>))
    ELSE JStr(<<>>)
\* a plausible slip: the explicit priority list is not consulted
TalentPriorityPositional(detail, name, pos) == pos

\* priority_lookup.get(name.lower(), idx + 1); pos = idx + 1
TalentPriority(detail, name, pos) ==
    IF Lower(name) \in PriorityKeys(detail) THEN PriorityLookup(detail, Lower(name)) ELSE pos

RECURSIVE TalentLoop(_, _, _)
TalentLoop(detail, iterable, pos) ==
    IF pos > Len(iterable) THEN <<>>
    ELSE LET name == TalentName(iterable[pos])
         IN  (IF Truthy(name)
              THEN <<ApiTalent(Format(name), Format(TalentDescription(iterable[pos])),
                               TalentPriority(detail, name.s, pos))>>
              ELSE <<>>)
             \o TalentLoop(detail, iterable, pos + 1)

normalize_talents(detail) == TalentLoop(detail, TalentIterable(detail), 1)

\* name.lower() raises AttributeError for a truthy name that is no string
normalize_talents_exc(detail) ==
    IF \E i \in 1..Len(TalentIterable(detail)) :
          /\ Truthy(TalentName(TalentIterable(detail)[i]))
          /\ ~IsStr(TalentName(TalentIterable(detail)[i]))
    THEN "AttributeError" ELSE "none"

(***************************************************************************)
(* fetch_characters                                                        *)
(***************************************************************************)
ApiCharacterPayload(name, element, weapon_type, rarity, description, talents, wrecs, arecs) ==
    [name |-> name, element |-> element, weapon_type |-> weapon_type, rarity |-> rarity,
     description |-> description, talents |-> talents,
     weapon_recommendations |-> wrecs, artifact_recommendations |-> arecs]

\* a plausible slip: the slug's hyphens replaced but the result not title-cased
SlugNameNoTitle(slug) == Replace(slug, 45, 32)

\* slug.replace("-", " ").title()
SlugName(slug) == Title(Replace(slug, 45, 32))

\* detail.get("name") or slug.replace("-", " ").title()
CharBaseName(slug, detail) == Or(Get(detail, k_name), JStr(SlugName(slug.s)))
\* detail.get("vision") or detail.get("element") or ""
CharElementRaw(detail) == Or(Or(Get(detail, k_vision), Get(detail, k_element)), JStr(<<>>))
\* detail.get("weapon") or detail.get("weapon_type") or ""
CharWeaponTypeRaw(detail) ==
    Or(Or(Get(detail, k_weapon), Get(detail, k_weapon_type)), JStr(<<>>))
\* detail.get("rarity", 5)
CharRarityRaw(detail) == GetD(detail, k_rarity, JInt(5))
CharWeaponRecsRaw(detail) ==
    Or(Or(Or(Or(Get(detail, k_recommended_weapons), Get(detail, k_best_weapons)),
             Get(detail, k_weapons)), Get(detail, k_weapon_recommendations)), JList(<<>>))
CharArtifactRecsRaw(detail) ==
    Or(Or(Or(Or(Get(detail, k_recommended_artifacts), Get(detail, k_artifacts)),
             Get(detail, k_artifact_recommendations)), Get(detail, k_recommended_sets)),
       JList(<<>>))

\* the exception raised while building the payload of one slug
BuildCharacterExc(slug, detail) ==
    FirstExc(<< DictMethodExc(detail),
                IF Truthy(Get(detail, k_name)) THEN "none" ELSE StrMethodExc(slug),
                StrMethodExc(CharElementRaw(detail)),
                StrMethodExc(CharWeaponTypeRaw(detail)),
                IntExc(CharRarityRaw(detail)),
                normalize_talents_exc(detail) >>)

\* name and description are stored as the detail gives them, whatever
\* their kind
BuildCharacter(slug, detail) ==
    ApiCharacterPayload(
        CharBaseName(slug, detail),
        Lower(CharElementRaw(detail).s),
        Lower(CharWeaponTypeRaw(detail).s),
        IntOf(CharRarityRaw(detail)),
        GetD(detail, k_description, JStr(<<>>)),
        normalize_talents(detail),
        normalize_recommendations(CharWeaponRecsRaw(detail)),
        normalize_recommendations(CharArtifactRecsRaw(detail)))

\* f"/characters/{slug}"
CharacterPath(slug) == p_characters \o <<47>> \o Format(slug)

\* for slug in slugs: one GET, then one payload.  What a turn of a loop uses
\* more than once (the path, the response, the exception of the build) is
\* bound as the parameter of a local operator.
RECURSIVE CharactersLoop(_, _, _)
CharactersLoop(up, slugs, i) ==
    IF i > Len(slugs) THEN Returned(<<>>, <<>>)
    ELSE LET Built(path, detail, exc) ==
                 IF ~detail.ok THEN Raised("HTTPError", <<path>>)
                 ELSE IF exc # "none" THEN Raised(exc, <<path>>)
                 ELSE LET rest == CharactersLoop(up, slugs, i + 1)
                      IN  IF rest.raised # "none"
                          THEN Raised(rest.raised, <<path>> \o rest.gets)
                          ELSE Returned(<<BuildCharacter(slugs[i], detail.body)>> \o rest.value,
                                        <<path>> \o rest.gets)
             Fetched(path, detail) == Built(path, detail, BuildCharacterExc(slugs[i], detail.body))
             Sent(path) == Fetched(path, get_json(up, path))
         IN  Sent(CharacterPath(slugs[i]))

fetch_characters(up) ==
    LET slugs == get_json(up, p_characters)
    IN  IF ~slugs.ok THEN Raised("HTTPError", <<p_characters>>)
        ELSE LET loop == CharactersLoop(up, IndexOf(slugs.body), 1)
             IN  [loop EXCEPT !.gets = <<p_characters>> \o @]

(***************************************************************************)
(* fetch_materials.extract_sources                                         *)
(***************************************************************************)
k__path == <<95,112,97,116,104>>  \* "_path"
k_source == <<115,111,117,114,99,101>>  \* "source"
k_sources == <<115,111,117,114,99,101,115>>  \* "sources"
k__inherited_sources == <<95,105,110,104,101,114,105,116,101,100,95,115,111,117,114,99,101,115>>  \* "_inherited_sources"
k_obtain == <<111,98,116,97,105,110>>  \* "obtain"
k_obtainedFrom == <<111,98,116,97,105,110,101,100,70,114,111,109>>  \* "obtainedFrom"
k_domain == <<100,111,109,97,105,110>>  \* "domain"
k_dropDomain == <<100,114,111,112,68,111,109,97,105,110>>  \* "dropDomain"
k_location == <<108,111,99,97,116,105,111,110>>  \* "location"
k_region == <<114,101,103,105,111,110>>  \* "region"

\* keyword -> boss, in the order the dict literal lists them
TALENT_BOSS_SOURCE_BY_KEYWORD == <<
    [key  |-> <<98,111,114,101,97,115>>,  \* "boreas"
     boss |-> <<65,110,100,114,105,117,115,44,32,68,111,109,105,110,97,116,111,114,32,111,102,32,87,111,108,118,101,115>>],  \* "Andrius, Dominator of Wolves"
    [key  |-> <<100,118,97,108,105,110>>,  \* "dvalin"
     boss |-> <<83,116,111,114,109,116,101,114,114,111,114>>],  \* "Stormterror"
    [key  |-> <<109,111,110,111,99,101,114,111,115>>,  \* "monoceros"
     boss |-> <<67,104,105,108,100,101,32,40,84,97,114,116,97,103,108,105,97,41>>],  \* "Childe (Tartaglia)"
    [key  |-> <<102,111,117,108,45,108,101,103,97,99,121>>,  \* "foul-legacy"
     boss |-> <<67,104,105,108,100,101,32,40,84,97,114,116,97,103,108,105,97,41>>],  \* "Childe (Tartaglia)"
    [key  |-> <<97,122,104,100,97,104,97>>,  \* "azhdaha"
     boss |-> <<65,122,104,100,97,104,97>>],  \* "Azhdaha"
    [key  |-> <<114,97,105,100,101,110>>,  \* "raiden"
     boss |-> <<77,97,103,97,116,115,117,32,77,105,116,97,107,101,32,78,97,114,117,107,97,109,105,32,110,111,32,77,105,107,111,116,111>>],  \* "Magatsu Mitake Narukami no Mikoto"
    [key  |-> <<112,117,112,112,101,116>>,  \* "puppet"
     boss |-> <<69,118,101,114,108,97,115,116,105,110,103,32,76,111,114,100,32,111,102,32,65,114,99,97,110,101,32,87,105,115,100,111,109>>],  \* "Everlasting Lord of Arcane Wisdom"
    [key  |-> <<109,117,115,104,105,110>>,  \* "mushin"
     boss |-> <<69,118,101,114,108,97,115,116,105,110,103,32,76,111,114,100,32,111,102,32,65,114,99,97,110,101,32,87,105,115,100,111,109>>],  \* "Everlasting Lord of Arcane Wisdom"
    [key  |-> <<99,97,108,97,109,105,116,111,117,115,45,103,111,100>>,  \* "calamitous-god"
     boss |-> <<83,104,111,117,107,105,32,110,111,32,75,97,109,105>>],  \* "Shouki no Kami"
    [key  |-> <<97,101,111,110,115>>,  \* "aeons"
     boss |-> <<83,104,111,117,107,105,32,110,111,32,75,97,109,105>>],  \* "Shouki no Kami"
    [key  |-> <<108,105,103,104,116,108,101,115,115>>,  \* "lightless"
     boss |-> <<65,108,108,45,68,101,118,111,117,114,105,110,103,32,78,97,114,119,104,97,108>>],  \* "All-Devouring Narwhal"
    [key  |-> <<102,97,100,105,110,103,45,99,97,110,100,108,101>>,  \* "fading-candle"
     boss |-> <<84,104,101,32,75,110,97,118,101>>],  \* "The Knave"
    [key  |-> <<100,101,110,105,97,108,45,97,110,100,45,106,117,100,103,109,101,110,116>>,  \* "denial-and-judgment"
     boss |-> <<84,104,101,32,75,110,97,118,101>>] >>  \* "The Knave"

REGIONS == {
    <<109,111,110,100,115,116,97,100,116>>,  \* "mondstadt"
    <<108,105,121,117,101>>,  \* "liyue"
    <<105,110,97,122,117,109,97>>,  \* "inazuma"
    <<115,117,109,101,114,117>>,  \* "sumeru"
    <<102,111,110,116,97,105,110,101>>,  \* "fontaine"
    <<110,97,116,108,97,110>> }  \* "natlan"

\* path = item.get("_path", "")
SourcePath(item) == GetD(item, k__path, JStr(<<>>))

\* key in path: a substring of a string, an element of a list, a key of a
\* dict
KeyIn(key, path) ==
    CASE IsStr(path)  -> Contains(key, path.s)
      [] IsList(path) -> \E i \in 1..Len(path.items) : path.items[i] = JStr(key)
      [] IsDict(path) -> Has(path, key)
      [] OTHER        -> FALSE
\* positions of the table whose keyword occurs in path
BossHits(path) ==
    {i \in 1..Len(TALENT_BOSS_SOURCE_BY_KEYWORD) :
        KeyIn(TALENT_BOSS_SOURCE_BY_KEYWORD[i].key, path)}
\* the loop returns at the first such keyword, in table order
BossOf(path) ==
    TALENT_BOSS_SOURCE_BY_KEYWORD[
        CHOOSE i \in BossHits(path) : \A j \in BossHits(path) : i <= j].boss

\* region = path.split("/")[0]
RegionOf(path) == SplitFirst(path.s, 47)

\* the nested norm(v)
RECURSIVE NormList(_)
NormList(items) ==
    IF items = <<>> THEN <<>>
    ELSE (IF IsStr(Head(items)) /\ Strip(Head(items).s) # <<>>
          THEN <<Strip(Head(items).s)>> ELSE <<>>)
         \o NormList(Tail(items))
norm(v) ==
    IF IsStr(v) /\ Strip(v.s) # <<>> THEN <<Strip(v.s)>>
    ELSE IF IsList(v) THEN NormList(v.items)
    ELSE <<>>

SourceCandidates(item) ==
    << Get(item, k_source), Get(item, k_sources), Get(item, k__inherited_sources),
       Get(item, k_obtain), Get(item, k_obtainedFrom), Get(item, k_domain),
       Get(item, k_dropDomain), Get(item, k_location), Get(item, k_region) >>

\* parts: for c in candidates: parts.extend(norm(c))
RECURSIVE ExtendAll(_)
ExtendAll(candidates) ==
    IF candidates = <<>> THEN <<>>
    ELSE norm(Head(candidates)) \o ExtendAll(Tail(candidates))
SourceParts(item) == ExtendAll(SourceCandidates(item))

\* a plausible slip: no fragment is ever recorded as seen
UniqueKeepsAll(parts, seen) == parts

\* unique: the parts not seen before, in order
RECURSIVE Unique(_, _)
Unique(parts, seen) ==
    IF parts = <<>> THEN <<>>
    ELSE IF Head(parts) \in seen THEN Unique(Tail(parts), seen)
    ELSE <<Head(parts)>> \o Unique(Tail(parts), seen \cup {Head(parts)})

CommaSpace == <<44, 32>>  \* ", "

\* a plausible slip: the region test placed ahead of the boss lookup
extract_sources_region_first(item) ==
    LET path == SourcePath(item)
    IN  IF Truthy(path) /\ IsStr(path) /\ RegionOf(path) \in REGIONS
        THEN Capitalize(RegionOf(path))
        ELSE IF Truthy(path) /\ BossHits(path) # {} THEN BossOf(path)
        ELSE Join(CommaSpace, Unique(SourceParts(item), {}))

\* a truthy path that is neither text nor a container has no "in" (TypeError
\* at the first keyword); a list or a dict that holds no keyword has no
\* split (AttributeError)
extract_sources_exc(item) ==
    LET path == SourcePath(item)
    IN  IF ~Truthy(path) THEN "none"
        ELSE IF ~(IsStr(path) \/ IsList(path) \/ IsDict(path)) THEN "TypeError"
        ELSE IF BossHits(path) # {} \/ IsStr(path) THEN "none"
        ELSE "AttributeError"

extract_sources(item) ==
    LET path == SourcePath(item)
    IN  IF Truthy(path) /\ BossHits(path) # {} THEN BossOf(path)
        ELSE IF Truthy(path) /\ RegionOf(path) \in REGIONS THEN Capitalize(RegionOf(path))
        ELSE Join(CommaSpace, Unique(SourceParts(item), {}))

(***************************************************************************)
(* fetch_materials.extract_items_from_category_payload                     *)
(***************************************************************************)
\* a plausible slip: any mapping with a name taken for an item
looks_like_item_by_name(d) == IsStr(Get(d, k_name)) /\ Strip(Get(d, k_name).s) # <<>>

looks_like_item(d) ==
    /\ IsStr(Get(d, k_name))
    /\ Strip(Get(d, k_name).s) # <<>>
    /\ \E k \in {k_id, k_rarity, k_experience, k_characters} : Has(d, k)

\* a plausible slip: "source" read before "sources"
get_sources_source_first(node) ==
    IF ~IsDict(node) THEN <<>>
    ELSE LET raw == Or(Get(node, k_source), Get(node, k_sources))
         IN  IF IsStr(raw) /\ Strip(raw.s) # <<>> THEN <<Strip(raw.s)>>
             ELSE IF IsList(raw) THEN NormList(raw.items)
             ELSE <<>>

get_sources_from_node(node) ==
    IF ~IsDict(node) THEN <<>>
    ELSE LET raw == Or(Get(node, k_sources), Get(node, k_source))
         IN  IF IsStr(raw) /\ Strip(raw.s) # <<>> THEN <<Strip(raw.s)>>
             ELSE IF IsList(raw) THEN NormList(raw.items)
             ELSE <<>>

\* d[k] = v on a dict: the value of an existing key is replaced in place, a
\* new key goes last
DictSet(d, k, v) ==
    IF Has(d, k)
    THEN JDict([i \in 1..Len(d.kv) |-> IF d.kv[i].k = k THEN KV(k, v) ELSE d.kv[i]])
    ELSE JDict(Append(d.kv, KV(k, v)))

RECURSIVE StrList(_)
StrList(parts) == IF parts = <<>> THEN <<>> ELSE <<JStr(Head(parts))>> \o StrList(Tail(parts))

\* clean = dict(node); clean["_path"] = "/".join(path);
\* if local_sources: clean["_inherited_sources"] = local_sources
CleanItem(node, path, local_sources) ==
    LET tagged == DictSet(node, k__path, JStr(Join(<<47>>, path)))
    IN  IF local_sources # <<>>
        THEN DictSet(tagged, k__inherited_sources, JList(StrList(local_sources)))
        ELSE tagged

\* the items walk(node, path, inherited_sources) appends, in order
RECURSIVE walk(_, _, _)
RECURSIVE WalkDict(_, _, _, _)
RECURSIVE WalkList(_, _, _, _)
walk(node, path, inherited_sources) ==
    IF IsDict(node)
    THEN LET local_sources == inherited_sources \o get_sources_from_node(node)
         IN  (IF looks_like_item(node) THEN <<CleanItem(node, path, local_sources)>> ELSE <<>>)
             \o WalkDict(node, 1, path, local_sources)
    ELSE IF IsList(node) THEN WalkList(node, 1, path, inherited_sources)
    ELSE <<>>
\* for k, v in node.items(), from the i-th entry on
WalkDict(node, i, path, local_sources) ==
    IF i > Len(node.kv) THEN <<>>
    ELSE (IF node.kv[i].k = k_id /\ IsStr(node.kv[i].v) /\ Len(node.kv) <= 2
          THEN <<>>
          ELSE walk(node.kv[i].v, Append(path, node.kv[i].k), local_sources))
         \o WalkDict(node, i + 1, path, local_sources)
\* for idx, v in enumerate(node), from position i = idx + 1 on
WalkList(node, i, path, inherited_sources) ==
    IF i > Len(node.items) THEN <<>>
    ELSE walk(node.items[i], Append(path, IntToStr(i - 1)), inherited_sources)
         \o WalkList(node, i + 1, path, inherited_sources)

extract_items_from_category_payload(payload) == walk(payload, <<>>, <<>>)

(***************************************************************************)
(* fetch_materials                                                         *)
(***************************************************************************)
ApiMaterial(name, type, rarity, source) ==
    [name |-> name, type |-> type, rarity |-> rarity, source |-> source]

\* item.get("rarity", 1) or 1
MaterialRarityRaw(item) == Or(GetD(item, k_rarity, JInt(1)), JInt(1))
\* try: int(...) except (TypeError, ValueError): 1
MaterialRarity(item) ==
    IF IntExc(MaterialRarityRaw(item)) # "none" THEN 1 ELSE IntOf(MaterialRarityRaw(item))
\* the except clause lets the OverflowError of an infinite rarity through
MaterialRarityExc(item) ==
    IF IntExc(MaterialRarityRaw(item)) = "OverflowError" THEN "OverflowError" ELSE "none"

\* if not isinstance(name, str) or not name.strip(): continue
MaterialNamed(item) == IsStr(Get(item, k_name)) /\ Strip(Get(item, k_name).s) # <<>>

\* the exception raised while the records of the items are built
RECURSIVE MaterialRecordsExc(_)
MaterialRecordsExc(items) ==
    IF items = <<>> THEN "none"
    ELSE IF MaterialNamed(Head(items))
            /\ FirstExc(<<MaterialRarityExc(Head(items)), extract_sources_exc(Head(items))>>)
                   # "none"
    THEN FirstExc(<<MaterialRarityExc(Head(items)), extract_sources_exc(Head(items))>>)
    ELSE MaterialRecordsExc(Tail(items))

\* the loop over the items of one category; type is the category as the
\* index lists it, whatever its kind
RECURSIVE MaterialRecords(_, _)
MaterialRecords(category, items) ==
    IF items = <<>> THEN <<>>
    ELSE LET item == Head(items)
         IN  (IF ~MaterialNamed(item) THEN <<>>
              ELSE <<ApiMaterial(Strip(Get(item, k_name).s), category, MaterialRarity(item),
                                 extract_sources(item))>>)
             \o MaterialRecords(category, Tail(items))

\* f"/materials/{category}" and f"/materials/{category}/{slug}"
CategoryPath(category) == p_materials \o <<47>> \o Format(category)
MaterialPath(category, slug) == CategoryPath(category) \o <<47>> \o Format(slug)

\* a list payload: one GET per string entry, keeping the named dicts
RECURSIVE MaterialSlugLoop(_, _, _, _)
MaterialSlugLoop(up, category, slugs, i) ==
    IF i > Len(slugs) THEN Returned(<<>>, <<>>)
    ELSE IF ~IsStr(slugs[i]) THEN MaterialSlugLoop(up, category, slugs, i + 1)
    ELSE LET Fetched(path, detail) ==
                 IF ~detail.ok THEN Raised("HTTPError", <<path>>)
                 ELSE LET rest == MaterialSlugLoop(up, category, slugs, i + 1)
                          kept == IF IsDict(detail.body) /\ Truthy(Get(detail.body, k_name))
                                  THEN <<detail.body>> ELSE <<>>
                      IN  IF rest.raised # "none"
                          THEN Raised(rest.raised, <<path>> \o rest.gets)
                          ELSE Returned(kept \o rest.value, <<path>> \o rest.gets)
             Sent(path) == Fetched(path, get_json(up, path))
         IN  Sent(MaterialPath(category, slugs[i]))

\* the items of one category
CategoryItems(up, category) ==
    LET Fetched(path, payload) ==
            IF ~payload.ok THEN Raised("HTTPError", <<path>>)
            ELSE IF IsList(payload.body)
            THEN LET loop == MaterialSlugLoop(up, category, payload.body.items, 1)
                 IN  [loop EXCEPT !.gets = <<path>> \o @]
            ELSE Returned(extract_items_from_category_payload(payload.body), <<path>>)
        Sent(path) == Fetched(path, get_json(up, path))
    IN  Sent(CategoryPath(category))

RECURSIVE CategoriesLoop(_, _, _)
CategoriesLoop(up, categories, i) ==
    IF i > Len(categories) THEN Returned(<<>>, <<>>)
    ELSE LET Built(items, exc) ==
                 IF items.raised # "none" THEN items
                 ELSE IF exc # "none" THEN Raised(exc, items.gets)
                 ELSE LET rest == CategoriesLoop(up, categories, i + 1)
                      IN  IF rest.raised # "none"
                          THEN Raised(rest.raised, items.gets \o rest.gets)
                          ELSE Returned(MaterialRecords(categories[i], items.value)
                                            \o rest.value,
                                        items.gets \o rest.gets)
             Listed(items) == Built(items, MaterialRecordsExc(items.value))
         IN  Listed(CategoryItems(up, categories[i]))

fetch_materials(up) ==
    LET categories == get_json(up, p_materials)
    IN  IF ~categories.ok THEN Raised("HTTPError", <<p_materials>>)
        ELSE LET loop == CategoriesLoop(up, IndexOf(categories.body), 1)
             IN  [loop EXCEPT !.gets = <<p_materials>> \o @]

(***************************************************************************)
(* fetch_weapons                                                           *)
(***************************************************************************)
ApiWeapon(name, weapon_type, rarity, source, description) ==
    [name |-> name, weapon_type |-> weapon_type, rarity |-> rarity, source |-> source,
     description |-> description]

\* item.get("type") or item.get("weapon_type") or item.get("weapon") or ""
WeaponTypeRaw(item) ==
    Or(Or(Or(Get(item, k_type), Get(item, k_weapon_type)), Get(item, k_weapon)), JStr(<<>>))
\* item.get("rarity", 4) or 4
WeaponRarityRaw(item) == Or(GetD(item, k_rarity, JInt(4)), JInt(4))

build_weapon_exc(slug, item) ==
    FirstExc(<< StrMethodExc(WeaponTypeRaw(item)), IntExc(WeaponRarityRaw(item)) >>)

\* name is stored as the item gives it, whatever its kind
build_weapon(slug, item) ==
    ApiWeapon(Or(Get(item, k_name), JStr(SlugName(slug))),
              Lower(WeaponTypeRaw(item).s),
              IntOf(WeaponRarityRaw(item)),
              Format(Or(Or(Get(item, k_source), Get(item, k_obtain)), JStr(<<>>))),
              Format(GetD(item, k_description, JStr(<<>>))))

\* str(entry.get("name") or entry.get("id") or entry.get("slug") or "")
EntrySlug(entry) ==
    Format(Or(Or(Or(Get(entry, k_name), Get(entry, k_id)), Get(entry, k_slug)), JStr(<<>>)))

\* f"/weapons/{entry}?lang=en"
WeaponPath(entry) == p_weapons \o <<47>> \o Format(entry) \o q_lang_en

\* the list payload: a string entry is a slug to fetch, a dict entry is the
\* item itself, anything else is passed over
RECURSIVE WeaponsListLoop(_, _, _)
WeaponsListLoop(up, payload, i) ==
    IF i > Len(payload) THEN Returned(<<>>, <<>>)
    ELSE IF IsStr(payload[i])
    THEN LET Built(path, detail, item, exc) ==
                 IF ~detail.ok THEN Raised("HTTPError", <<path>>)
                 ELSE IF exc # "none" THEN Raised(exc, <<path>>)
                 ELSE LET rest == WeaponsListLoop(up, payload, i + 1)
                      IN  IF rest.raised # "none"
                          THEN Raised(rest.raised, <<path>> \o rest.gets)
                          ELSE Returned(<<build_weapon(payload[i].s, item)>> \o rest.value,
                                        <<path>> \o rest.gets)
             Item(path, detail, item) ==
                 Built(path, detail, item, build_weapon_exc(payload[i].s, item))
             Fetched(path, detail) ==
                 Item(path, detail, IF IsDict(detail.body) THEN detail.body ELSE JDict(<<>>))
             Sent(path) == Fetched(path, get_json(up, path))
         IN  Sent(WeaponPath(payload[i]))
    ELSE IF IsDict(payload[i])
    THEN IF build_weapon_exc(EntrySlug(payload[i]), payload[i]) # "none"
         THEN Raised(build_weapon_exc(EntrySlug(payload[i]), payload[i]), <<>>)
         ELSE LET rest == WeaponsListLoop(up, payload, i + 1)
              IN  IF rest.raised # "none" THEN rest
                  ELSE Returned(<<build_weapon(EntrySlug(payload[i]), payload[i])>> \o rest.value,
                                rest.gets)
    ELSE WeaponsListLoop(up, payload, i + 1)

\* the dict payload: slug -> item, entries that are no dict are passed over
RECURSIVE WeaponsDictLoop(_, _)
WeaponsDictLoop(kv, i) ==
    IF i > Len(kv) THEN Returned(<<>>, <<>>)
    ELSE IF ~IsDict(kv[i].v) THEN WeaponsDictLoop(kv, i + 1)
    ELSE IF build_weapon_exc(kv[i].k, kv[i].v) # "none"
    THEN Raised(build_weapon_exc(kv[i].k, kv[i].v), <<>>)
    ELSE LET rest == WeaponsDictLoop(kv, i + 1)
         IN  IF rest.raised # "none" THEN rest
             ELSE Returned(<<build_weapon(kv[i].k, kv[i].v)>> \o rest.value, <<>>)

fetch_weapons(up) ==
    LET path    == p_weapons \o q_lang_en
        payload == get_json(up, path)
    IN  IF ~payload.ok THEN Raised("HTTPError", <<path>>)
        ELSE LET loop == IF IsList(payload.body) THEN WeaponsListLoop(up, payload.body.items, 1)
                         ELSE IF IsDict(payload.body) THEN WeaponsDictLoop(payload.body.kv, 1)
                         ELSE Returned(<<>>, <<>>)
             IN  [loop EXCEPT !.gets = <<path>> \o @]

(***************************************************************************)
(* fetch_artifacts                                                         *)
(***************************************************************************)
ApiArtifactSet(name, two_piece_bonus, four_piece_bonus) ==
    [name |-> name, two_piece_bonus |-> two_piece_bonus, four_piece_bonus |-> four_piece_bonus]

\* name is stored as the item gives it, whatever its kind
build_set(slug, item) ==
    ApiArtifactSet(
        Or(Get(item, k_name), JStr(SlugName(slug))),
        Format(Or(Or(Or(Or(Get(item, k_2pc), Get(item, k_two_pc)), Get(item, k_two_piece_bonus)),
                     Get(item, k_2_piece_bonus)), JStr(<<>>))),
        Format(Or(Or(Or(Or(Get(item, k_4pc), Get(item, k_four_pc)), Get(item, k_four_piece_bonus)),
                     Get(item, k_4_piece_bonus)), JStr(<<>>))))

\* f"/artifacts/{entry}?lang=en"
ArtifactPath(entry) == p_artifacts \o <<47>> \o Format(entry) \o q_lang_en

RECURSIVE ArtifactsListLoop(_, _, _)
ArtifactsListLoop(up, payload, i) ==
    IF i > Len(payload) THEN Returned(<<>>, <<>>)
    ELSE IF IsStr(payload[i])
    THEN LET Fetched(path, detail) ==
                 IF ~detail.ok THEN Raised("HTTPError", <<path>>)
                 ELSE LET item == IF IsDict(detail.body) THEN detail.body ELSE JDict(<<>>)
                          rest == ArtifactsListLoop(up, payload, i + 1)
                      IN  IF rest.raised # "none"
                          THEN Raised(rest.raised, <<path>> \o rest.gets)
                          ELSE Returned(<<build_set(payload[i].s, item)>> \o rest.value,
                                        <<path>> \o rest.gets)
             Sent(path) == Fetched(path, get_json(up, path))
         IN  Sent(ArtifactPath(payload[i]))
    ELSE IF IsDict(payload[i])
    THEN LET rest == ArtifactsListLoop(up, payload, i + 1)
         IN  IF rest.raised # "none" THEN rest
             ELSE Returned(<<build_set(EntrySlug(payload[i]), payload[i])>> \o rest.value,
                           rest.gets)
    ELSE ArtifactsListLoop(up, payload, i + 1)

RECURSIVE ArtifactsDictLoop(_, _)
ArtifactsDictLoop(kv, i) ==
    IF i > Len(kv) THEN <<>>
    ELSE (IF IsDict(kv[i].v) THEN <<build_set(kv[i].k, kv[i].v)>> ELSE <<>>)
         \o ArtifactsDictLoop(kv, i + 1)

fetch_artifacts(up) ==
    LET path    == p_artifacts \o q_lang_en
        payload == get_json(up, path)
    IN  IF ~payload.ok THEN Raised("HTTPError", <<path>>)
        ELSE LET loop == IF IsList(payload.body) THEN ArtifactsListLoop(up, payload.body.items, 1)
                         ELSE IF IsDict(payload.body)
                         THEN Returned(ArtifactsDictLoop(payload.body.kv, 1), <<>>)
                         ELSE Returned(<<>>, <<>>)
             IN  [loop EXCEPT !.gets = <<path>> \o @]

(***************************************************************************)
(* roster.models: the tables the commands and the admin write.  A table is *)
(* the sequence of its rows in insertion order.  id is the primary key, a  *)
(* number the table has not given to a row before; a foreign key holds the *)
(* id of the row it points to.  BlankX is model X's field defaults.        *)
(***************************************************************************)
BlankCharacter ==
    [name |-> <<>>, element |-> <<>>, rarity |-> 5, role |-> <<>>, weapon_type |-> <<>>,
     description |-> <<>>]
BlankWeapon ==
    [name |-> <<>>, weapon_type |-> <<>>, rarity |-> 4, source |-> <<>>, description |-> <<>>]
BlankArtifactSet == [name |-> <<>>, two_piece_bonus |-> <<>>, four_piece_bonus |-> <<>>]
BlankMaterial == [name |-> <<>>, material_type |-> <<>>, rarity |-> 1, source |-> <<>>]
BlankCharacterMaterialRequirement ==
    [character |-> 0, material |-> 0, quantity |-> 0,
     category |-> <<97,115,99,101,110,115,105,111,110>>, notes |-> <<>>]  \* "ascension"
BlankCharacterTalent ==
    [character |-> 0, name |-> <<>>, description |-> <<>>, recommended_priority |-> 1]
BlankCharacterWeaponRecommendation ==
    [character |-> 0, weapon |-> 0, ranking |-> 1, note |-> <<>>]
BlankCharacterArtifactRecommendation ==
    [character |-> 0, artifact_set |-> 0, ranking |-> 1, note |-> <<>>]

BlankOf(model) ==
    CASE model = "Character" -> BlankCharacter
      [] model = "Weapon" -> BlankWeapon
      [] model = "ArtifactSet" -> BlankArtifactSet
      [] model = "Material" -> BlankMaterial
      [] model = "CharacterMaterialRequirement" -> BlankCharacterMaterialRequirement
      [] model = "CharacterTalent" -> BlankCharacterTalent
      [] model = "CharacterWeaponRecommendation" -> BlankCharacterWeaponRecommendation
      [] model = "CharacterArtifactRecommendation" -> BlankCharacterArtifactRecommendation

EmptyStore ==
    [Character |-> <<>>, Material |-> <<>>, Weapon |-> <<>>, ArtifactSet |-> <<>>,
     CharacterMaterialRequirement |-> <<>>, CharacterTalent |-> <<>>,
     CharacterWeaponRecommendation |-> <<>>, CharacterArtifactRecommendation |-> <<>>]
Models == DOMAIN EmptyStore
\* the models with a unique name
Named == {"Character", "Material", "Weapon", "ArtifactSet"}
\* the last id each table has given
NoIds == [m \in Models |-> 0]

\* models.ForeignKey(X, on_delete=models.CASCADE): the field and the model
\* it points to
ForeignKeys(model) ==
    CASE model = "CharacterMaterialRequirement" ->
             [character |-> "Character", material |-> "Material"]
      [] model = "CharacterTalent" -> [character |-> "Character"]
      [] model = "CharacterWeaponRecommendation" ->
             [character |-> "Character", weapon |-> "Weapon"]
      [] model = "CharacterArtifactRecommendation" ->
             [character |-> "Character", artifact_set |-> "ArtifactSet"]
      [] OTHER -> <<>>

\* unique=True and Meta.unique_together
UniqueTogether(model) ==
    CASE model \in Named -> {"name"}
      [] model = "CharacterMaterialRequirement" -> {"character", "material", "category"}
      [] model = "CharacterTalent" -> {"character", "name"}
      [] model = "CharacterWeaponRecommendation" -> {"character", "weapon"}
      [] model = "CharacterArtifactRecommendation" -> {"character", "artifact_set"}

\* the text a CharField or a TextField looks a value up by and stores:
\* str(value)
DbText(v) == Format(v)

\* the database refuses a row: None in a text column (NOT NULL), a negative
\* number in a PositiveSmallIntegerField (its CHECK constraint)
Refused(texts, numbers) ==
    \/ \E i \in 1..Len(texts) : texts[i].t = "null"
    \/ \E i \in 1..Len(numbers) : numbers[i] < 0

\* the row matches the lookup: every lookup field has the looked-up value
Matches(row, lookup) == \A f \in DOMAIN lookup : row[f] = lookup[f]
Exists(rows, lookup) == \E n \in 1..Len(rows) : Matches(rows[n], lookup)
Position(rows, lookup) == CHOOSE n \in 1..Len(rows) : Matches(rows[n], lookup)

\* a foreign key of the row points to no row of its table
Dangling(st, model, row) ==
    \E f \in DOMAIN ForeignKeys(model) : ~Exists(st[ForeignKeys(model)[f]], [id |-> row[f]])
\* another row has the unique fields of the row
Duplicate(rows, model, row) ==
    \E n \in 1..Len(rows) :
        /\ rows[n].id # row.id
        /\ \A f \in UniqueTogether(model) : rows[n][f] = row[f]

\* what a call of the database leaves: the tables, the ids given, the row
\* found or written, and the exception raised ("none" when it returned)
Written(st, ids, row, created) ==
    [store |-> st, last_id |-> ids, row |-> row, created |-> created, raised |-> "none"]
NotWritten(st, ids, row, exc) ==
    [store |-> st, last_id |-> ids, row |-> row, created |-> FALSE, raised |-> exc]

\* INSERT: the row gets the next id of its table; the database refuses a
\* row that breaks a unique or a foreign key constraint (IntegrityError)
Insert(st, ids, model, fields) ==
    LET row == [id |-> ids[model] + 1] @@ fields
    IN  IF Dangling(st, model, row) \/ Duplicate(st[model], model, row)
        THEN NotWritten(st, ids, row, "IntegrityError")
        ELSE Written([st EXCEPT ![model] = Append(@, row)],
                     [ids EXCEPT ![model] = @ + 1], row, TRUE)

\* DELETE with on_delete=CASCADE: the row goes, and with it the rows whose
\* foreign key points to it
Delete(st, model, id) ==
    [m \in Models |->
        SelectSeq(st[m],
                  LAMBDA row :
                      /\ ~(m = model /\ row.id = id)
                      /\ \A f \in DOMAIN ForeignKeys(m) :
                            ~(ForeignKeys(m)[f] = model /\ row[f] = id))]

\* Model.objects.update_or_create(**lookup, defaults=defaults): the matching
\* row gets the defaults and keeps its other fields; without a match a row
\* is created from the lookup, the defaults and the model's field defaults
update_or_create(st, ids, model, lookup, defaults) ==
    IF Exists(st[model], lookup)
    THEN LET n   == Position(st[model], lookup)
             row == defaults @@ st[model][n]
         IN  Written([st EXCEPT ![model][n] = row], ids, row, FALSE)
    ELSE Insert(st, ids, model, lookup @@ defaults @@ BlankOf(model))

\* Model.objects.get_or_create(**lookup): a row that matches every lookup
\* field is left as it is; without one a row is created from the lookup and
\* the model's field defaults
get_or_create(st, ids, model, lookup) ==
    IF Exists(st[model], lookup)
    THEN Written(st, ids, st[model][Position(st[model], lookup)], FALSE)
    ELSE Insert(st, ids, model, lookup @@ BlankOf(model))

(***************************************************************************)
(* import_genshin_blue.Command.handle.  The command is a process: each GET *)
(* request and each call of the database is one step, committed by itself  *)
(* (handle opens no transaction), and other processes may write the tables *)
(* between two steps.  What a run does is logged: every GET request and    *)
(* every update_or_create call that returned, in order.                    *)
(***************************************************************************)
GetEvent(path) ==
    [op |-> "get", path |-> path, model |-> "", step |-> "", key |-> <<>>, created |-> FALSE]
UpsertEvent(model, step, key, created) ==
    [op |-> "upsert", path |-> <<>>, model |-> model, step |-> step, key |-> key,
     created |-> created]

\* a model instance as handle holds it: the primary key and the name
Instance(row) == [id |-> row.id, name |-> row.name]
NoInstance == [id |-> 0, name |-> <<>>]

\* where handle is inside a phase: sending the GET requests of the fetch
\* (n sent so far), in the loop over the fetched items (at item n), or in
\* the build-data loop (at item n of a stage of a payload, holding the
\* character and, between a placeholder upsert and its link, the placeholder)
Cursor(stage, n) ==
    [stage |-> stage, n |-> n, items |-> <<>>, payload |-> 0, character |-> NoInstance,
     obj |-> NoInstance]

\* the local state of a running command
Process(at, exc, chars, wmap, amap, cur) ==
    [pc |-> at, ret |-> exc, characters |-> chars, weapon_map |-> wmap,
     artifact_map |-> amap, cursor |-> cur]
Started == Process("characters", "none", <<>>, <<>>, <<>>, Cursor("fetch", 0))

\* a command that has not been started; load_sample_data not started: the
\* calls that have returned and the instances its local variables hold
NotRunning == [Started EXCEPT !.pc = "idle"]
NotLoading == [pc |-> "idle", n |-> 0, objs |-> <<>>, ret |-> "none"]

\* a step of the command: its local state, the tables and what it logs
Stepped(p, st, ids, events) == [p |-> p, store |-> st, last_id |-> ids, events |-> events]

\* an exception leaves handle: the run is over, the tables stay as they are
Abort(p, exc) == [p EXCEPT !.pc = "aborted", !.ret = exc]

\* a plausible slip: the build data is saved before the artifact sets are
\* fetched
PhaseAfterBuildEarly(phase) ==
    CASE phase = "characters" -> "materials"
      [] phase = "materials" -> "weapons"
      [] phase = "weapons" -> "build"
      [] phase = "build" -> "artifacts"
      [] phase = "artifacts" -> "done"

\* the order of handle: characters, materials, weapons, artifact sets, then
\* the build data
PhaseAfter(phase) ==
    CASE phase = "characters" -> "materials"
      [] phase = "materials" -> "weapons"
      [] phase = "weapons" -> "artifacts"
      [] phase = "artifacts" -> "build"
      [] phase = "build" -> "done"

\* handle comes to a phase: the first GET of a fetch is next, or the first
\* payload of "for payload in characters" (no payload, no turn)
Enter(p, phase) ==
    LET next == IF phase = "build" /\ p.characters = <<>> THEN PhaseAfter("build") ELSE phase
    IN  IF next = "build"
        THEN [p EXCEPT !.pc = "build", !.cursor = [Cursor("get", 1) EXCEPT !.payload = 1]]
        ELSE IF next = "done" THEN [p EXCEPT !.pc = "done", !.cursor = Cursor("over", 0)]
        ELSE [p EXCEPT !.pc = next, !.cursor = Cursor("fetch", 0)]

\* the fetch has returned: characters = ..., weapon_map = {}, artifact_map = {}
Assign(p, value) ==
    CASE p.pc = "characters" -> [p EXCEPT !.characters = value]
      [] p.pc = "materials" -> p
      [] p.pc = "weapons" -> [p EXCEPT !.weapon_map = <<>>]
      [] p.pc = "artifacts" -> [p EXCEPT !.artifact_map = <<>>]

\* "for item in items": at the first item, or past the loop
Loop(p, items) ==
    IF items = <<>> THEN Enter(p, PhaseAfter(p.pc))
    ELSE [p EXCEPT !.cursor = [Cursor("save", 1) EXCEPT !.items = items]]
\* the turn of the loop is over
NextItem(p) ==
    IF p.cursor.n < Len(p.cursor.items) THEN [p EXCEPT !.cursor.n = @ + 1]
    ELSE Enter(p, PhaseAfter(p.pc))

\* client.fetch_...(): the next GET request of the fetch is sent; with the
\* last one the fetch returns its list or raises
FetchStep(p, st, ids, fetched) ==
    LET n    == p.cursor.n + 1
        sent == [p EXCEPT !.cursor.n = n]
    IN  Stepped(IF n < Len(fetched.gets) THEN sent
                ELSE IF fetched.raised # "none" THEN Abort(sent, fetched.raised)
                ELSE Loop(Assign(sent, fetched.value), fetched.value),
                st, ids, <<GetEvent(fetched.gets[n])>>)

\* the call of update_or_create has returned or raised
Upserted(next, p, up, event) ==
    IF up.raised # "none" THEN Stepped(Abort(p, up.raised), up.store, up.last_id, <<>>)
    ELSE Stepped(next, up.store, up.last_id, <<event>>)
Refusal(p, st, ids) == Stepped(Abort(p, "IntegrityError"), st, ids, <<>>)

\* Character.objects.update_or_create(name=character.name, defaults={...})
UpsertCharacter(st, ids, character) ==
    update_or_create(st, ids, "Character", [name |-> DbText(character.name)],
        [element |-> character.element, weapon_type |-> character.weapon_type,
         rarity |-> character.rarity, description |-> DbText(character.description)])
CharacterRefused(character) ==
    Refused(<<character.name, character.description>>, <<character.rarity>>)

\* one turn of "for character in characters"
SaveCharacter(p, st, ids, character) ==
    IF CharacterRefused(character) THEN Refusal(p, st, ids)
    ELSE LET up == UpsertCharacter(st, ids, character)
         IN  Upserted(NextItem(p), p, up,
                      UpsertEvent("Character", "catalog", <<DbText(character.name)>>,
                                  up.created))

\* one turn of "for material in materials"
SaveMaterial(p, st, ids, material) ==
    IF Refused(<<material.type>>, <<material.rarity>>) THEN Refusal(p, st, ids)
    ELSE LET up == update_or_create(st, ids, "Material", [name |-> material.name],
                       [material_type |-> DbText(material.type), rarity |-> material.rarity,
                        source |-> material.source])
         IN  Upserted(NextItem(p), p, up,
                      UpsertEvent("Material", "catalog", <<material.name>>, up.created))

\* a plausible slip: the catalog entity is put in the map under its name as
\* spelled
MapKeyExact(name) == name

\* obj.name.lower(), the key of a catalog entity in weapon_map / artifact_map
MapKey(name) == Lower(name)

\* obj.name of the object update_or_create returns: the stored text of a
\* row it found, the value it was given for a row it created; lower() of a
\* value that is no string raises AttributeError
ObjNameExc(created, name) == IF created THEN StrMethodExc(name) ELSE "none"

\* one turn of "for weapon in weapons": update_or_create, then
\* weapon_map[obj.name.lower()] = obj
SaveWeapon(p, st, ids, weapon) ==
    IF Refused(<<weapon.name>>, <<weapon.rarity>>) THEN Refusal(p, st, ids)
    ELSE LET Saved(up, event) ==
                 IF up.raised = "none" /\ ObjNameExc(up.created, weapon.name) # "none"
                 THEN Stepped(Abort(p, ObjNameExc(up.created, weapon.name)), up.store,
                              up.last_id, <<event>>)
                 ELSE Upserted(NextItem([p EXCEPT !.weapon_map =
                                            (MapKey(up.row.name) :> Instance(up.row)) @@ @]),
                               p, up, event)
             Called(up) ==
                 Saved(up, UpsertEvent("Weapon", "catalog", <<DbText(weapon.name)>>, up.created))
         IN  Called(update_or_create(st, ids, "Weapon", [name |-> DbText(weapon.name)],
                        [weapon_type |-> weapon.weapon_type, rarity |-> weapon.rarity,
                         source |-> weapon.source, description |-> weapon.description]))

\* one turn of "for artifact in artifact_sets": update_or_create, then
\* artifact_map[obj.name.lower()] = obj
SaveArtifactSet(p, st, ids, artifact) ==
    IF Refused(<<artifact.name>>, <<>>) THEN Refusal(p, st, ids)
    ELSE LET Saved(up, event) ==
                 IF up.raised = "none" /\ ObjNameExc(up.created, artifact.name) # "none"
                 THEN Stepped(Abort(p, ObjNameExc(up.created, artifact.name)), up.store,
                              up.last_id, <<event>>)
                 ELSE Upserted(NextItem([p EXCEPT !.artifact_map =
                                            (MapKey(up.row.name) :> Instance(up.row)) @@ @]),
                               p, up, event)
             Called(up) ==
                 Saved(up, UpsertEvent("ArtifactSet", "catalog", <<DbText(artifact.name)>>,
                                       up.created))
         IN  Called(update_or_create(st, ids, "ArtifactSet",
                        [name |-> DbText(artifact.name)],
                        [two_piece_bonus |-> artifact.two_piece_bonus,
                         four_piece_bonus |-> artifact.four_piece_bonus]))

\* the payload the build-data loop is at, and the name its character is
\* stored under
Payload(p) == p.characters[p.cursor.payload]
CharacterOf(payload) == DbText(payload.name)

\* the stages of one turn of "for payload in characters": the character is
\* got, then its talents, weapon recommendations and artifact
\* recommendations are gone through
StageAfter(stage) ==
    CASE stage = "get" -> "talents"
      [] stage = "talents" -> "weapons"
      [] stage = "weapons" -> "artifacts"
      [] stage = "artifacts" -> "next"
StageItems(payload, stage) ==
    CASE stage = "talents" -> payload.talents
      [] stage = "weapons" -> payload.weapon_recommendations
      [] stage = "artifacts" -> payload.artifact_recommendations
      [] OTHER -> <<>>

\* the loop of a stage is at item n: at that item, or past the loop at the
\* first item of the next stage that has one, or at the next payload, or
\* past the build-data loop
RECURSIVE Advance(_, _, _)
Advance(p, stage, n) ==
    IF stage = "next"
    THEN IF p.cursor.payload < Len(p.characters)
         THEN [p EXCEPT !.cursor = [Cursor("get", 1) EXCEPT !.payload = p.cursor.payload + 1]]
         ELSE Enter(p, PhaseAfter("build"))
    ELSE IF n <= Len(StageItems(Payload(p), stage))
    THEN [p EXCEPT !.cursor.stage = stage, !.cursor.n = n, !.cursor.obj = NoInstance]
    ELSE Advance(p, StageAfter(stage), 1)

\* character = Character.objects.get(name=payload.name): DoesNotExist when
\* no row has the name
GetCharacter(p, st, ids) ==
    LET lookup == [name |-> DbText(Payload(p).name)]
    IN  IF ~Exists(st.Character, lookup) THEN Stepped(Abort(p, "DoesNotExist"), st, ids, <<>>)
        ELSE Stepped(Advance([p EXCEPT !.cursor.character =
                                  Instance(st.Character[Position(st.Character, lookup)])],
                             "talents", 1),
                     st, ids, <<>>)

\* a plausible slip: the talents of the character are replaced, those the
\* payload does not list are deleted
SaveTalentReplacing(st, ids, character, talent) ==
    update_or_create(
        [st EXCEPT !.CharacterTalent =
            SelectSeq(@, LAMBDA row : row.character # character.id \/ row.name = talent.name)],
        ids, "CharacterTalent", [character |-> character.id, name |-> talent.name],
        [description |-> talent.description, recommended_priority |-> talent.priority])

\* CharacterTalent.objects.update_or_create(character=character,
\* name=talent.name, defaults={...})
SaveTalent(st, ids, character, talent) ==
    update_or_create(st, ids, "CharacterTalent",
        [character |-> character.id, name |-> talent.name],
        [description |-> talent.description, recommended_priority |-> talent.priority])

\* one turn of "for talent in payload.talents"
TalentStep(p, st, ids) ==
    LET talent == Payload(p).talents[p.cursor.n]
        up     == SaveTalent(st, ids, p.cursor.character, talent)
    IN  Upserted(Advance(p, "talents", p.cursor.n + 1), p, up,
                 UpsertEvent("CharacterTalent", "build",
                             <<p.cursor.character.name, talent.name>>, up.created))

\* a plausible slip: the placeholder is not registered in weapon_map
RegisterWeaponNever(wmap, weapon) == wmap

\* weapon_map[weapon.name.lower()] = weapon
RegisterWeapon(wmap, weapon) == (Lower(weapon.name) :> weapon) @@ wmap

\* a plausible slip: the link is looked up and created, its ranking is not set
LinkDefaultsNone(rec) == <<>>

\* defaults={"ranking": rec.ranking} of the link upserts
LinkDefaults(rec) == [ranking |-> rec.ranking]

\* a plausible slip: the placeholder upsert resets the description as well
PlaceholderDefaultsAll(payload) ==
    [weapon_type |-> payload.weapon_type, rarity |-> 4, source |-> <<>>, description |-> <<>>]

\* defaults={"weapon_type": payload.weapon_type, "rarity": 4, "source": ""}
PlaceholderDefaults(payload) ==
    [weapon_type |-> payload.weapon_type, rarity |-> 4, source |-> <<>>]

\* CharacterWeaponRecommendation.objects.update_or_create(character=character,
\* weapon=weapon, defaults={"ranking": rec.ranking}), the end of the turn
LinkWeapon(p, st, ids, rec, weapon) ==
    LET up == update_or_create(st, ids, "CharacterWeaponRecommendation",
                  [character |-> p.cursor.character.id, weapon |-> weapon.id],
                  LinkDefaults(rec))
    IN  Upserted(Advance(p, "weapons", p.cursor.n + 1), p, up,
                 UpsertEvent("CharacterWeaponRecommendation", "build",
                             <<p.cursor.character.name, weapon.name>>, up.created))

\* one turn of "for rec in payload.weapon_recommendations" up to its first
\* call of the database: the link to the weapon of the map under the
\* lower-cased name, or else the upsert of a placeholder, which is put in
\* the map and linked in the next step
WeaponStep(p, st, ids) ==
    LET rec == Payload(p).weapon_recommendations[p.cursor.n]
    IN  IF p.cursor.stage = "weapon_link" THEN LinkWeapon(p, st, ids, rec, p.cursor.obj)
        ELSE IF Lower(rec.name) \in DOMAIN p.weapon_map
        THEN LinkWeapon(p, st, ids, rec, p.weapon_map[Lower(rec.name)])
        ELSE LET up == update_or_create(st, ids, "Weapon", [name |-> rec.name],
                           PlaceholderDefaults(Payload(p)))
             IN  Upserted([p EXCEPT !.weapon_map = RegisterWeapon(@, Instance(up.row)),
                                    !.cursor.stage = "weapon_link",
                                    !.cursor.obj = Instance(up.row)],
                          p, up,
                          UpsertEvent("Weapon", "placeholder", <<rec.name>>, up.created))

\* CharacterArtifactRecommendation.objects.update_or_create(...)
LinkArtifactSet(p, st, ids, rec, artifact_set) ==
    LET up == update_or_create(st, ids, "CharacterArtifactRecommendation",
                  [character |-> p.cursor.character.id, artifact_set |-> artifact_set.id],
                  LinkDefaults(rec))
    IN  Upserted(Advance(p, "artifacts", p.cursor.n + 1), p, up,
                 UpsertEvent("CharacterArtifactRecommendation", "build",
                             <<p.cursor.character.name, artifact_set.name>>, up.created))

\* one turn of "for rec in payload.artifact_recommendations", likewise
ArtifactStep(p, st, ids) ==
    LET rec == Payload(p).artifact_recommendations[p.cursor.n]
    IN  IF p.cursor.stage = "artifact_link" THEN LinkArtifactSet(p, st, ids, rec, p.cursor.obj)
        ELSE IF Lower(rec.name) \in DOMAIN p.artifact_map
        THEN LinkArtifactSet(p, st, ids, rec, p.artifact_map[Lower(rec.name)])
        ELSE LET up == update_or_create(st, ids, "ArtifactSet", [name |-> rec.name],
                           [two_piece_bonus |-> <<>>, four_piece_bonus |-> <<>>])
             IN  Upserted([p EXCEPT !.artifact_map =
                                        (Lower(up.row.name) :> Instance(up.row)) @@ @,
                                    !.cursor.stage = "artifact_link",
                                    !.cursor.obj = Instance(up.row)],
                          p, up,
                          UpsertEvent("ArtifactSet", "placeholder", <<rec.name>>, up.created))

\* the next step of each phase of handle
CharactersStep(p, st, ids, up) ==
    IF p.cursor.stage = "fetch" THEN FetchStep(p, st, ids, fetch_characters(up))
    ELSE SaveCharacter(p, st, ids, p.cursor.items[p.cursor.n])
MaterialsStep(p, st, ids, up) ==
    IF p.cursor.stage = "fetch" THEN FetchStep(p, st, ids, fetch_materials(up))
    ELSE SaveMaterial(p, st, ids, p.cursor.items[p.cursor.n])
WeaponsStep(p, st, ids, up) ==
    IF p.cursor.stage = "fetch" THEN FetchStep(p, st, ids, fetch_weapons(up))
    ELSE SaveWeapon(p, st, ids, p.cursor.items[p.cursor.n])
ArtifactSetsStep(p, st, ids, up) ==
    IF p.cursor.stage = "fetch" THEN FetchStep(p, st, ids, fetch_artifacts(up))
    ELSE SaveArtifactSet(p, st, ids, p.cursor.items[p.cursor.n])
BuildDataStep(p, st, ids) ==
    CASE p.cursor.stage = "get" -> GetCharacter(p, st, ids)
      [] p.cursor.stage = "talents" -> TalentStep(p, st, ids)
      [] p.cursor.stage \in {"weapons", "weapon_link"} -> WeaponStep(p, st, ids)
      [] p.cursor.stage \in {"artifacts", "artifact_link"} -> ArtifactStep(p, st, ids)

\* the next step of a running command
ImportStep(p, st, ids, up) ==
    CASE p.pc = "characters" -> CharactersStep(p, st, ids, up)
      [] p.pc = "materials" -> MaterialsStep(p, st, ids, up)
      [] p.pc = "weapons" -> WeaponsStep(p, st, ids, up)
      [] p.pc = "artifacts" -> ArtifactSetsStep(p, st, ids, up)
      [] p.pc = "build" -> BuildDataStep(p, st, ids)

(***************************************************************************)
(* Inputs of the helper functions                                          *)
(***************************************************************************)
SeqsUpTo(S, n) == UNION {[1..k -> S] : k \in 0..n}
NoDupKeys(kv) == \A i, j \in 1..Len(kv) : kv[i].k = kv[j].k => i = j

s_X == <<88>>  \* "X"
s_Y == <<89>>  \* "Y"
s_Z == <<90>>  \* "Z"

MaxRecs == 3

RecListItems ==
    { JStr(s_X), JStr(s_Y), JStr(s_Z), JStr(<<>>), JNull,
      JDict(<<KV(k_name, JStr(s_X))>>),
      JDict(<<KV(k_title, JStr(s_Y))>>),
      JDict(<<KV(k_name, JNull), KV(k_weapon, JStr(s_Z))>>),
      JDict(<<>>) }
RecDictEntries ==
    { KV(k, v) : k \in {s_X, s_Y, s_Z}, v \in {JStr(s_X), JStr(<<>>), JNull, JInt(1)} }
RecInputs ==
    { JList(l) : l \in SeqsUpTo(RecListItems, MaxRecs) }
    \cup { JDict(d) : d \in {e \in SeqsUpTo(RecDictEntries, MaxRecs) : NoDupKeys(e)} }
    \cup { JStr(s_X), JStr(<<>>), JNull, JInt(3) }

s_A == <<65>>  \* "A"
s_B == <<66>>  \* "B"
s_C == <<67>>  \* "C"
s_D == <<68>>  \* "D"
s_A_padded == <<32,65,32>>  \* " A "
s_blank == <<32,32>>  \* "  "
s_A_B_C == <<65,44,32,66,44,32,67>>  \* "A, B, C"
s_Stormterror == <<83,116,111,114,109,116,101,114,114,111,114>>  \* "Stormterror"
s_Mondstadt == <<77,111,110,100,115,116,97,100,116>>  \* "Mondstadt"
p_mondstadt_dvalin == <<109,111,110,100,115,116,97,100,116,47,100,118,97,108,105,110,45,112,108,117,109,101>>  \* "mondstadt/dvalin-plume"
p_mondstadt_sunsettia == <<109,111,110,100,115,116,97,100,116,47,115,117,110,115,101,116,116,105,97>>  \* "mondstadt/sunsettia"
p_boss_dvalin == <<116,97,108,101,110,116,45,98,111,115,115,47,100,118,97,108,105,110,45,112,108,117,109,101>>  \* "talent-boss/dvalin-plume"
p_dvalin_boreas == <<100,118,97,108,105,110,47,98,111,114,101,97,115>>  \* "dvalin/boreas"
p_0_liyue == <<48,47,108,105,121,117,101>>  \* "0/liyue"
p_Liyue_jade == <<76,105,121,117,101,47,106,97,100,101>>  \* "Liyue/jade"

\* a field that is absent, or present with one of the values vs
Field(k, vs) == {<<>>} \cup { <<KV(k, v)>> : v \in vs }

\* the path of an item the tree walk emits is text; an item fetched by its
\* slug carries whatever the remote API put under "_path"
s_dvalin == <<100,118,97,108,105,110>>  \* "dvalin"
s_liyue == <<108,105,121,117,101>>  \* "liyue"
SourcePaths ==
    Field(k__path, { JStr(<<>>), JStr(p_mondstadt_dvalin), JStr(p_mondstadt_sunsettia),
                     JStr(p_boss_dvalin), JStr(p_dvalin_boreas), JStr(p_0_liyue),
                     JStr(p_Liyue_jade),
                     JNull, JInt(5), JList(<<JStr(s_liyue), JStr(s_dvalin)>>),
                     JList(<<JStr(s_liyue)>>), JDict(<<KV(s_dvalin, JInt(1))>>) })
SourceItems ==
    { JDict(p \o a \o b \o c \o d \o e \o f \o g \o h \o i) :
        p \in SourcePaths,
        a \in Field(k_source, {JStr(s_A), JStr(s_A_padded)}),
        b \in Field(k_sources, {JList(<<JStr(s_B), JStr(s_A)>>),
                                 JList(<<JStr(s_A), JStr(s_B), JStr(s_A), JStr(s_C)>>)}),
        c \in Field(k__inherited_sources, {JList(<<JStr(s_A), JStr(s_C)>>)}),
        d \in Field(k_obtain, {JStr(s_B)}),
        e \in Field(k_obtainedFrom, {JStr(s_D)}),
        f \in Field(k_domain, {JStr(s_blank)}),
        g \in Field(k_dropDomain, {JInt(3)}),
        h \in Field(k_location, {JList(<<JStr(s_C), JInt(1), JStr(<<>>)>>)}),
        i \in Field(k_region, {JStr(s_A)}) }


\* text used by the inputs
s_amber == <<97,109,98,101,114>>  \* "amber"
s_Amber == <<65,109,98,101,114>>  \* "Amber"
s_hu_tao == <<104,117,45,116,97,111>>  \* "hu-tao"
s_Hu_Tao == <<72,117,32,84,97,111>>  \* "Hu Tao"
s_lisa == <<108,105,115,97>>  \* "lisa"
s_Lisa_Minci == <<76,105,115,97,32,77,105,110,99,105>>  \* "Lisa Minci"
s_kaeya == <<107,97,101,121,97>>  \* "kaeya"
s_diluc == <<100,105,108,117,99>>  \* "diluc"
s_venti == <<118,101,110,116,105>>  \* "venti"
s_Pyro == <<80,121,114,111>>  \* "Pyro"
s_pyro == <<112,121,114,111>>  \* "pyro"
s_Cryo == <<67,114,121,111>>  \* "Cryo"
s_Electro == <<69,108,101,99,116,114,111>>  \* "Electro"
s_Bow == <<66,111,119>>  \* "Bow"
s_bow == <<98,111,119>>  \* "bow"
s_Polearm == <<80,111,108,101,97,114,109>>  \* "Polearm"
s_Catalyst == <<67,97,116,97,108,121,115,116>>  \* "Catalyst"
s_Sword == <<83,119,111,114,100>>  \* "Sword"
s_Claymore == <<67,108,97,121,109,111,114,101>>  \* "Claymore"
s_4 == <<52>>  \* "4"
s_5 == <<53>>  \* "5"
s_abc == <<97,98,99>>  \* "abc"
s_minus_2 == <<45,50>>  \* "-2"
s_qiqi == <<113,105,113,105>>  \* "qiqi"
s_dust == <<100,117,115,116>>  \* "dust"
s_Dust == <<68,117,115,116>>  \* "Dust"
\* a numeral of MaxStrDigits + 1 digits: "00...05"
s_zeros_5 == [i \in 1..MaxStrDigits |-> 48] \o <<53>>
s_rust == <<114,117,115,116>>  \* "rust"
s_skyward_harp == <<115,107,121,119,97,114,100,45,104,97,114,112>>  \* "skyward-harp"
s_Skyward_Harp == <<83,107,121,119,97,114,100,32,72,97,114,112>>  \* "Skyward Harp"
s_aqua == <<97,113,117,97>>  \* "aqua"
s_jade == <<106,97,100,101>>  \* "jade"
s_wolf == <<119,111,108,102>>  \* "wolf"
s_Gacha == <<71,97,99,104,97>>  \* "Gacha"
s_gladiator == <<103,108,97,100,105,97,116,111,114>>  \* "gladiator"
s_noblesse == <<110,111,98,108,101,115,115,101>>  \* "noblesse"
s_Noblesse_Oblige == <<78,111,98,108,101,115,115,101,32,79,98,108,105,103,101>>  \* "Noblesse Oblige"
s_ATK == <<65,84,75>>  \* "ATK"
s_DMG == <<68,77,71>>  \* "DMG"
s_ores == <<111,114,101,115>>  \* "ores"
s_mondstadt == <<109,111,110,100,115,116,97,100,116>>  \* "mondstadt"
s_Jade == <<74,97,100,101>>  \* "Jade"
s_Ore == <<79,114,101>>  \* "Ore"
s_Gem == <<71,101,109>>  \* "Gem"
s_Fish == <<70,105,115,104>>  \* "Fish"
s_ore == <<111,114,101>>  \* "ore"
s_gem == <<103,101,109>>  \* "gem"
s_fish == <<102,105,115,104>>  \* "fish"
s_nameless == <<110,97,109,101,108,101,115,115>>  \* "nameless"
s_e_clair == <<233,45,99,108,97,105,114>>  \* "\u00e9-clair"
s_E_Clair == <<201,32,67,108,97,105,114>>  \* "\u00c9 Clair"
s_Electro_accent == <<201,108,101,99,116,114,111>>  \* "\u00c9lectro"
s_electro_accent == <<233,108,101,99,116,114,111>>  \* "\u00e9lectro"
s_plume == <<112,108,117,109,101>>  \* "plume"
s_Plume == <<80,108,117,109,101>>  \* "Plume"
s_boreas == <<98,111,114,101,97,115>>  \* "boreas"
s_berserker == <<98,101,114,115,101,114,107,101,114>>  \* "berserker"

\* sequences of at most n distinct members of S
DistinctSeqsUpTo(S, n) ==
    {q \in SeqsUpTo(S, n) : \A i, j \in 1..Len(q) : q[i] = q[j] => i = j}

Entry(slug, item) == [slug |-> slug, item |-> item]
Route200(path, body) == [path |-> path, status |-> 200, body |-> body]

MaxEntries == 2

CharacterEntries ==
    { Entry(s_amber, JDict(<<KV(k_vision, JStr(s_Pyro)), KV(k_weapon, JStr(s_Bow)),
                             KV(k_rarity, JStr(s_4))>>)),
      Entry(s_hu_tao, JDict(<<KV(k_element, JStr(s_Pyro)), KV(k_weapon_type, JStr(s_Polearm)),
                              KV(k_rarity, JInt(5))>>)),
      Entry(s_lisa, JDict(<<KV(k_name, JStr(s_Lisa_Minci)), KV(k_vision, JStr(s_Electro)),
                            KV(k_element, JStr(s_Cryo)), KV(k_weapon, JStr(s_Catalyst)),
                            KV(k_weapon_type, JStr(s_Sword))>>)),
      Entry(s_kaeya, JDict(<<KV(k_vision, JStr(s_Cryo)), KV(k_rarity, JStr(s_abc))>>)),
      Entry(s_diluc, JDict(<<KV(k_vision, JStr(s_Pyro)), KV(k_rarity, JInt(-1))>>)),
      Entry(s_venti, JDict(<<KV(k_weapon, JStr(s_Bow)), KV(k_rarity, JNull)>>)),
      Entry(s_e_clair, JDict(<<KV(k_vision, JStr(s_Electro_accent)), KV(k_rarity, JInt(4)),
                               KV(k_description, JNull)>>)) }

WeaponEntries ==
    { Entry(s_rust, JDict(<<KV(k_type, JStr(s_Bow)), KV(k_rarity, JInt(4)),
                            KV(k_source, JStr(s_Gacha))>>)),
      Entry(s_skyward_harp, JDict(<<KV(k_name, JStr(s_Skyward_Harp)), KV(k_rarity, JStr(s_5)),
                                    KV(k_weapon_type, JStr(s_Bow))>>)),
      Entry(s_aqua, JDict(<<KV(k_type, JStr(s_Sword)), KV(k_rarity, JStr(s_abc))>>)),
      Entry(s_jade, JDict(<<KV(k_type, JStr(s_Polearm)), KV(k_rarity, JStr(s_minus_2))>>)),
      Entry(s_wolf, JDict(<<KV(k_type, JStr(s_Claymore))>>)),
      Entry(s_plume, JDict(<<KV(k_name, JInt(5)), KV(k_type, JStr(s_Bow)),
                             KV(k_rarity, JInt(3))>>)),
      Entry(<<>>, JDict(<<KV(k_rarity, JInt(3))>>)) }

ArtifactEntries ==
    { Entry(s_gladiator, JDict(<<KV(k_2pc, JStr(s_ATK)), KV(k_4pc, JStr(s_DMG))>>)),
      Entry(s_noblesse, JDict(<<KV(k_name, JStr(s_Noblesse_Oblige)),
                                KV(k_two_piece_bonus, JStr(s_DMG))>>)),
      Entry(s_berserker, JDict(<<KV(k_name, JBool(TRUE)),
                                 KV(k_4pc, JList(<<JStr(s_ATK), JInt(2)>>))>>)),
      Entry(<<>>, JDict(<<KV(k_4pc, JStr(s_ATK))>>)) }

MaterialEntries ==
    { Entry(s_jade, JDict(<<KV(k_name, JStr(s_Jade)), KV(k_id, JStr(s_jade)),
                            KV(k_rarity, JInt(2)), KV(k_source, JStr(s_A))>>)),
      Entry(s_ore, JDict(<<KV(k_name, JStr(s_Ore)), KV(k_id, JStr(s_ore)),
                           KV(k_rarity, JStr(s_abc))>>)),
      Entry(s_gem, JDict(<<KV(k_name, JStr(s_Gem)), KV(k_rarity, JInt(-3))>>)),
      Entry(s_fish, JDict(<<KV(k_name, JStr(s_Fish)), KV(k_id, JStr(s_fish))>>)),
      Entry(s_plume, JDict(<<KV(k_name, JStr(s_Plume)), KV(k_rarity, JInt(5)),
                             KV(k__path, JList(<<JStr(s_boreas)>>))>>)),
      Entry(s_nameless, JDict(<<KV(k_id, JStr(s_nameless)), KV(k_rarity, JInt(1))>>)) }

\* the three shapes an endpoint answers in: a list of slugs (each with its
\* own detail route), a list of objects, an object keyed by slug
Scenario(kind, shape, entries) == [kind |-> kind, shape |-> shape, entries |-> entries]
Nameless(e) == e.slug = <<>> /\ ~Truthy(Get(e.item, k_name))

\* a rarity of more digits than int() converts, served by slug
LongNumeralScenarios ==
    { Scenario("characters", "slugs",
               << Entry(s_qiqi, JDict(<<KV(k_vision, JStr(s_Cryo)),
                                        KV(k_rarity, JStr(s_zeros_5))>>)) >>),
      Scenario("weapons", "slugs",
               << Entry(s_dust, JDict(<<KV(k_type, JStr(s_Bow)),
                                        KV(k_rarity, JStr(s_zeros_5))>>)) >>),
      Scenario("materials", "slugs",
               << Entry(s_dust, JDict(<<KV(k_name, JStr(s_Dust)), KV(k_id, JStr(s_dust)),
                                        KV(k_rarity, JStr(s_zeros_5))>>)) >>) }

FetchScenarios ==
    LongNumeralScenarios
    \cup
    { Scenario("characters", sh, es) :
        sh \in {"slugs", "objects", "keyed"},
        es \in DistinctSeqsUpTo(CharacterEntries, MaxEntries) }
    \cup
    { sc \in { Scenario(kd, sh, es) :
                 kd \in {"weapons"}, sh \in {"slugs", "objects", "keyed"},
                 es \in DistinctSeqsUpTo(WeaponEntries, MaxEntries) } :
        sc.shape = "slugs" => \A i \in 1..Len(sc.entries) : ~Nameless(sc.entries[i]) }
    \cup
    { sc \in { Scenario(kd, sh, es) :
                 kd \in {"artifacts"}, sh \in {"slugs", "objects", "keyed"},
                 es \in DistinctSeqsUpTo(ArtifactEntries, MaxEntries) } :
        sc.shape = "slugs" => \A i \in 1..Len(sc.entries) : ~Nameless(sc.entries[i]) }
    \cup
    { Scenario("materials", sh, es) :
        sh \in {"slugs", "objects", "keyed"},
        es \in DistinctSeqsUpTo(MaterialEntries, MaxEntries) }

SlugList(es)  == JList([i \in 1..Len(es) |-> JStr(es[i].slug)])
\* an object of a list carries its slug as "id" when it has one and no name
ObjectOf(e) ==
    IF e.slug # <<>> /\ ~Has(e.item, k_name) /\ ~Has(e.item, k_id)
    THEN JDict(<<KV(k_id, JStr(e.slug))>> \o e.item.kv)
    ELSE e.item
ObjectList(es) == JList([i \in 1..Len(es) |-> ObjectOf(es[i])])
Keyed(es)      == JDict([i \in 1..Len(es) |-> KV(es[i].slug, es[i].item)])

CharactersUpstream(sc) ==
    << Route200(p_characters,
                CASE sc.shape = "slugs"   -> SlugList(sc.entries)
                  [] sc.shape = "objects" -> ObjectList(sc.entries)
                  [] sc.shape = "keyed"   -> Keyed(sc.entries)) >>
    \o [i \in 1..Len(sc.entries) |->
          Route200(CharacterPath(JStr(sc.entries[i].slug)), sc.entries[i].item)]

WeaponsUpstream(sc) ==
    << Route200(p_weapons \o q_lang_en,
                CASE sc.shape = "slugs"   -> SlugList(sc.entries)
                  [] sc.shape = "objects" -> ObjectList(sc.entries)
                  [] sc.shape = "keyed"   -> Keyed(sc.entries)) >>
    \o (IF sc.shape = "slugs"
        THEN [i \in 1..Len(sc.entries) |->
                Route200(WeaponPath(JStr(sc.entries[i].slug)), sc.entries[i].item)]
        ELSE <<>>)

ArtifactsUpstream(sc) ==
    << Route200(p_artifacts \o q_lang_en,
                CASE sc.shape = "slugs"   -> SlugList(sc.entries)
                  [] sc.shape = "objects" -> ObjectList(sc.entries)
                  [] sc.shape = "keyed"   -> Keyed(sc.entries)) >>
    \o (IF sc.shape = "slugs"
        THEN [i \in 1..Len(sc.entries) |->
                Route200(ArtifactPath(JStr(sc.entries[i].slug)), sc.entries[i].item)]
        ELSE <<>>)

\* one category, "ores": a list of slugs, a wrapper {"id": ..., "items": [...]}
\* or a tree keyed by region and slug
MaterialsUpstream(sc) ==
    << Route200(p_materials, JList(<<JStr(s_ores)>>)),
       Route200(CategoryPath(JStr(s_ores)),
                CASE sc.shape = "slugs"   -> SlugList(sc.entries)
                  [] sc.shape = "objects" ->
                        JDict(<<KV(k_id, JStr(s_ores)), KV(k_items, ObjectList(sc.entries))>>)
                  [] sc.shape = "keyed"   ->
                        JDict(<<KV(s_mondstadt, Keyed(sc.entries))>>)) >>
    \o (IF sc.shape = "slugs"
        THEN [i \in 1..Len(sc.entries) |->
                Route200(MaterialPath(JStr(s_ores), JStr(sc.entries[i].slug)),
                         sc.entries[i].item)]
        ELSE <<>>)

UpstreamOf(sc) ==
    CASE sc.kind = "characters" -> CharactersUpstream(sc)
      [] sc.kind = "weapons"    -> WeaponsUpstream(sc)
      [] sc.kind = "artifacts"  -> ArtifactsUpstream(sc)
      [] sc.kind = "materials"  -> MaterialsUpstream(sc)

(***************************************************************************)
(* Inputs of the import: what the remote API serves, which request fails,  *)
(* and the store the first run starts from                                 *)
(***************************************************************************)
s_Foobar_Blade == <<70,111,111,98,97,114,32,66,108,97,100,101>>  \* "Foobar Blade"
s_foobar_blade == <<102,111,111,98,97,114,32,98,108,97,100,101>>  \* "foobar blade"
s_foobar_blade_slug == <<102,111,111,98,97,114,45,98,108,97,100,101>>  \* "foobar-blade"
s_Rust == <<82,117,115,116>>  \* "Rust"
s_RUST == <<82,85,83,84>>  \* "RUST"
s_Gladiator == <<71,108,97,100,105,97,116,111,114>>  \* "Gladiator"
s_Wanderer == <<87,97,110,100,101,114,101,114>>  \* "Wanderer"
s_WANDERER == <<87,65,78,68,69,82,69,82>>  \* "WANDERER"
s_wanderer == <<119,97,110,100,101,114,101,114>>  \* "wanderer"
s_Aim == <<65,105,109>>  \* "Aim"
s_Old == <<79,108,100>>  \* "Old"
s_DPS == <<68,80,83>>  \* "DPS"
s_cryo == <<99,114,121,111>>  \* "cryo"
s_sword == <<115,119,111,114,100>>  \* "sword"
s_lisa_minci == <<108,105,115,97,45,109,105,110,99,105>>  \* "lisa-minci"
p_characters_amber == <<47,99,104,97,114,97,99,116,101,114,115,47,97,109,98,101,114>>  \* "/characters/amber"
p_weapons_rust == <<47,119,101,97,112,111,110,115,47,114,117,115,116,63,108,97,110,103,61,101,110>>  \* "/weapons/rust?lang=en"
MaxChars == 2

StrItems(names) == JList([n \in 1..Len(names) |-> JStr(names[n])])

\* characters with build data; "Foobar Blade" and "Wanderer" are in no
\* catalog unless the scenario's catalog has them, and are recommended under
\* several spellings
AmberEntry ==
    Entry(s_amber, JDict(<<KV(k_vision, JStr(s_Pyro)), KV(k_weapon, JStr(s_Bow)),
                             KV(k_rarity, JStr(s_4)),
                             KV(k_talents, JList(<<JDict(<<KV(k_name, JStr(s_Aim)),
                                                           KV(k_description, JStr(s_A))>>)>>)),
                             KV(k_recommended_weapons, StrItems(<<s_Foobar_Blade, s_Rust>>)),
                             KV(k_recommended_artifacts,
                                StrItems(<<s_Gladiator, s_Wanderer>>))>>))
HuTaoEntry ==
    Entry(s_hu_tao, JDict(<<KV(k_element, JStr(s_Pyro)), KV(k_weapon_type, JStr(s_Polearm)),
                              KV(k_rarity, JInt(5)),
                              KV(k_best_weapons, StrItems(<<s_foobar_blade>>)),
                              KV(k_artifacts, StrItems(<<s_WANDERER>>))>>))
ImportCharacterEntries ==
    { AmberEntry, HuTaoEntry,
      Entry(s_lisa, JDict(<<KV(k_name, JStr(s_Lisa_Minci)), KV(k_weapon, JStr(s_Catalyst)),
                            KV(k_talents, StrItems(<<s_Aim, s_Aim>>)),
                            KV(k_weapons, StrItems(<<s_Foobar_Blade, s_RUST, s_Rust>>))>>)),
      Entry(s_lisa_minci, JDict(<<KV(k_weapon, JStr(s_Sword)),
                                  KV(k_weapons, StrItems(<<s_Rust>>))>>)),
      Entry(s_kaeya, JDict(<<KV(k_vision, JStr(s_Cryo)), KV(k_rarity, JStr(s_abc))>>)),
      Entry(s_diluc, JDict(<<KV(k_vision, JStr(s_Pyro)), KV(k_description, JNull)>>)) }

\* the catalogs the API serves; one weapon is named by a number, one
\* material has a negative rarity
RustAndFoobarBlade ==
    << Entry(s_rust, JDict(<<KV(k_type, JStr(s_Bow)), KV(k_rarity, JInt(4)),
                             KV(k_source, JStr(s_Gacha))>>)),
       Entry(s_foobar_blade_slug, JDict(<<KV(k_type, JStr(s_Sword))>>)) >>
ImportWeaponCatalogs ==
    { <<>>,
      << Entry(s_rust, JDict(<<KV(k_type, JStr(s_Bow)), KV(k_rarity, JInt(4)),
                               KV(k_source, JStr(s_Gacha))>>)) >>,
      RustAndFoobarBlade,
      << Entry(s_rust, JDict(<<KV(k_name, JInt(5)), KV(k_type, JStr(s_Bow))>>)) >> }

GladiatorOnly ==
    << Entry(s_gladiator, JDict(<<KV(k_2pc, JStr(s_ATK)), KV(k_4pc, JStr(s_DMG))>>)) >>
ImportArtifactCatalogs == { <<>>, GladiatorOnly }

JadeOnly ==
    << Entry(s_jade, JDict(<<KV(k_name, JStr(s_Jade)), KV(k_id, JStr(s_jade)),
                             KV(k_rarity, JInt(2)), KV(k_source, JStr(s_A))>>)) >>
ImportMaterialCatalogs ==
    { <<>>,
      JadeOnly,
      << Entry(s_gem, JDict(<<KV(k_name, JStr(s_Gem)), KV(k_rarity, JInt(-3))>>)) >> }

\* the request that is answered with a failure status, if any
NoFailure == [path |-> <<>>, status |-> 200]
Failures ==
    { NoFailure,
      [path |-> p_characters_amber, status |-> 404],
      [path |-> p_materials, status |-> 500],
      [path |-> p_weapons_rust, status |-> 503],
      [path |-> p_artifacts \o q_lang_en, status |-> 429] }

\* a store that earlier imports and hand edits have left behind
SeededStore ==
    [EmptyStore EXCEPT
        !.Character = << [id |-> 2] @@ [BlankCharacter EXCEPT !.name = s_Amber,
                                            !.element = s_cryo, !.role = s_DPS,
                                            !.description = s_Old] >>,
        !.Weapon = << [id |-> 1] @@ [BlankWeapon EXCEPT !.name = s_Foobar_Blade,
                                         !.weapon_type = s_sword, !.rarity = 5,
                                         !.source = s_Gacha, !.description = s_Old] >>,
        !.ArtifactSet = << [id |-> 3] @@ [BlankArtifactSet EXCEPT !.name = s_wanderer,
                                              !.two_piece_bonus = s_ATK] >>,
        !.CharacterTalent = << [id |-> 1] @@ [BlankCharacterTalent EXCEPT !.character = 2,
                                                  !.name = s_Aim, !.description = s_Old,
                                                  !.recommended_priority = 3],
                               [id |-> 4] @@ [BlankCharacterTalent EXCEPT !.character = 2,
                                                  !.name = s_Old, !.description = s_Old,
                                                  !.recommended_priority = 1] >>,
        !.CharacterWeaponRecommendation =
            << [id |-> 1] @@ [BlankCharacterWeaponRecommendation EXCEPT !.character = 2,
                                  !.weapon = 1, !.ranking = 7, !.note = s_Old] >>]
SeededIds ==
    [NoIds EXCEPT !.Character = 2, !.Weapon = 1, !.ArtifactSet = 3, !.CharacterTalent = 4,
                  !.CharacterWeaponRecommendation = 1]
Stores ==
    { [store |-> EmptyStore, last_id |-> NoIds], [store |-> SeededStore, last_id |-> SeededIds] }

\* every weapon and artifact catalog, every material catalog, and every
\* failing request, each with every sequence of characters
ImportScenarios ==
    [ kind      : {"import"},
      entries   : DistinctSeqsUpTo(ImportCharacterEntries, MaxChars),
      materials : {JadeOnly},
      weapons   : ImportWeaponCatalogs,
      artifacts : ImportArtifactCatalogs,
      failure   : {NoFailure} ]
    \cup
    [ kind      : {"import"},
      entries   : DistinctSeqsUpTo(ImportCharacterEntries, MaxChars),
      materials : ImportMaterialCatalogs,
      weapons   : {RustAndFoobarBlade},
      artifacts : {GladiatorOnly},
      failure   : {NoFailure} ]
    \cup
    [ kind      : {"import"},
      entries   : DistinctSeqsUpTo(ImportCharacterEntries, MaxChars),
      materials : {JadeOnly},
      weapons   : {RustAndFoobarBlade},
      artifacts : {GladiatorOnly},
      failure   : Failures ]

\* characters and weapons are served as slug lists with one detail route per
\* slug, artifact sets as a list of objects, materials as one category
ImportUpstream(sc) ==
    LET routes == CharactersUpstream(Scenario("characters", "slugs", sc.entries))
                  \o MaterialsUpstream(Scenario("materials", "objects", sc.materials))
                  \o WeaponsUpstream(Scenario("weapons", "slugs", sc.weapons))
                  \o ArtifactsUpstream(Scenario("artifacts", "objects", sc.artifacts))
    IN  [n \in 1..Len(routes) |->
            IF routes[n].path = sc.failure.path
            THEN [routes[n] EXCEPT !.status = sc.failure.status]
            ELSE routes[n]]

\* no import is under way: the store is empty and the command has no state
NoImport ==
    /\ store = EmptyStore
    /\ last_id = NoIds
    /\ other = NotRunning
    /\ sample = NotLoading
    /\ edits = 0
    /\ weapon_map = <<>>
    /\ artifact_map = <<>>
    /\ characters = <<>>
    /\ cursor = 0
    /\ log = <<>>
    /\ run = 0
    /\ before = EmptyStore

(***************************************************************************)
(* SpecRecs: one call of normalize_recommendations                         *)
(***************************************************************************)
InitRecs ==
    /\ pc = "call"
    /\ arg \in RecInputs
    /\ ret = <<>>
    /\ upstream = <<>>
    /\ NoImport

NormalizeRecommendations ==
    /\ pc = "call"
    /\ ret' = normalize_recommendations(arg)
    /\ pc' = "return"
    /\ UNCHANGED <<arg, upstream, handle_vars>>

NextRecs == NormalizeRecommendations

SpecRecs == InitRecs /\ [][NextRecs]_vars

\* C5: the k-th record emitted by normalize_recommendations has ranking k
\* (rankings are exactly 1..n in emission order, no gaps, no repeats).
C5_DenseRankings ==
    pc = "return" => \A k \in 1..Len(ret) : ret[k].ranking = k

(***************************************************************************)
(* SpecSources: one call of extract_sources                                *)
(***************************************************************************)
InitSources ==
    /\ pc = "call"
    /\ arg \in SourceItems
    /\ ret = <<>>
    /\ upstream = <<>>
    /\ NoImport

ExtractSources ==
    /\ pc = "call"
    /\ IF extract_sources_exc(arg) # "none"
       THEN /\ ret' = extract_sources_exc(arg)
            /\ pc' = "raise"
       ELSE /\ ret' = extract_sources(arg)
            /\ pc' = "return"
    /\ UNCHANGED <<arg, upstream, handle_vars>>

NextSources == ExtractSources

SpecSources == InitSources /\ [][NextSources]_vars

\* the item's traversal path, "" when it carries none; a traversal path is
\* text
PathIsText(item) == Has(item, k__path) => IsStr(Get(item, k__path))
PathOfItem(item) == IF Has(item, k__path) THEN Get(item, k__path).s ELSE <<>>
\* the bosses of the keywords that occur in the path
BossesIn(path) ==
    { TALENT_BOSS_SOURCE_BY_KEYWORD[i].boss : i \in
        {j \in 1..Len(TALENT_BOSS_SOURCE_BY_KEYWORD) :
            Contains(TALENT_BOSS_SOURCE_BY_KEYWORD[j].key, path)} }
\* the known regions that are the path's first "/"-separated segment
FirstSegmentRegions(path) ==
    { r \in REGIONS : \/ path = r
                      \/ /\ Len(path) > Len(r)
                         /\ SubSeq(path, 1, Len(r) + 1) = r \o <<47>> }
NoPathOverride(item) ==
    BossesIn(PathOfItem(item)) = {} /\ FirstSegmentRegions(PathOfItem(item)) = {}

\* the fragments that occur for the first time at their position, in order
RECURSIVE FirstSeen(_, _)
FirstSeen(parts, n) ==
    IF n = 0 THEN <<>>
    ELSE FirstSeen(parts, n - 1)
         \o (IF \A j \in 1..(n - 1) : parts[j] # parts[n] THEN <<parts[n]>> ELSE <<>>)

\* C8: extract_sources resolves by strict precedence: a boss keyword in the
\* path gives that boss; otherwise a known region as first path segment gives
\* the region capitalized; only otherwise the candidate fields are used.
\* "mondstadt/dvalin-plume" gives "Stormterror", and an item under a region
\* path gives the region even when it carries its own source field.
C8_SourcePrecedence ==
    (pc = "return" /\ PathIsText(arg)) =>
        LET path == PathOfItem(arg)
        IN  /\ BossesIn(path) # {} => ret \in BossesIn(path)
            /\ (BossesIn(path) = {} /\ FirstSegmentRegions(path) # {}) =>
                   \E r \in FirstSegmentRegions(path) : ret = Capitalize(r)
            /\ NoPathOverride(arg) =>
                   ret = Join(CommaSpace, FirstSeen(SourceParts(arg), Len(SourceParts(arg))))
            /\ path = p_mondstadt_dvalin => ret = s_Stormterror
            /\ (path = p_mondstadt_sunsettia /\ Has(arg, k_source)) => ret = s_Mondstadt

C8_Witness ==
    /\ pc = "return"
    /\ PathIsText(arg)
    /\ PathOfItem(arg) = p_mondstadt_dvalin
    /\ Has(arg, k_source)
    /\ ret = s_Stormterror

\* C9: with no path override, the source string is the candidate fields'
\* fragments in field-priority order, each later duplicate of an already
\* seen fragment removed, first-seen order kept, joined by ", "; fragments
\* A, B, A, C give "A, B, C".
C9_DedupKeepsOrder ==
    (pc = "return" /\ PathIsText(arg) /\ NoPathOverride(arg)) =>
        LET parts == SourceParts(arg)
        IN  /\ ret = Join(CommaSpace, FirstSeen(parts, Len(parts)))
            /\ parts = <<s_A, s_B, s_A, s_C>> => ret = s_A_B_C

C9_Witness ==
    /\ pc = "return"
    /\ PathIsText(arg)
    /\ NoPathOverride(arg)
    /\ SourceParts(arg) = <<s_A, s_B, s_A, s_C>>
    /\ ret = s_A_B_C

(***************************************************************************)
(* SpecFetch: one call of a fetch operation against a remote API that      *)
(* answers every request of the scenario with status 200                   *)
(***************************************************************************)
InitFetch ==
    /\ pc = "call"
    /\ arg \in FetchScenarios
    /\ upstream = UpstreamOf(arg)
    /\ ret = <<>>
    /\ NoImport

FetchCharacters ==
    /\ pc = "call"
    /\ arg.kind = "characters"
    /\ ret' = fetch_characters(upstream)
    /\ pc' = "fetch_characters"
    /\ UNCHANGED <<arg, upstream, handle_vars>>

FetchMaterials ==
    /\ pc = "call"
    /\ arg.kind = "materials"
    /\ ret' = fetch_materials(upstream)
    /\ pc' = "fetch_materials"
    /\ UNCHANGED <<arg, upstream, handle_vars>>

FetchWeapons ==
    /\ pc = "call"
    /\ arg.kind = "weapons"
    /\ ret' = fetch_weapons(upstream)
    /\ pc' = "fetch_weapons"
    /\ UNCHANGED <<arg, upstream, handle_vars>>

FetchArtifacts ==
    /\ pc = "call"
    /\ arg.kind = "artifacts"
    /\ ret' = fetch_artifacts(upstream)
    /\ pc' = "fetch_artifacts"
    /\ UNCHANGED <<arg, upstream, handle_vars>>

NextFetch ==
    \/ FetchCharacters
    \/ FetchMaterials
    \/ FetchWeapons
    \/ FetchArtifacts

SpecFetch == InitFetch /\ [][NextFetch]_vars

FetchDone == pc \in {"fetch_characters", "fetch_materials", "fetch_weapons", "fetch_artifacts"}

\* the raw rarity of an entry is malformed: missing, a string that is no
\* number, or negative
RawRarity(e) == Get(e.item, k_rarity)
NumericText(s) == s # <<>> /\ \A i \in 1..Len(s) : IsDigit(s[i])
MalformedRarity(e) ==
    \/ ~Has(e.item, k_rarity)
    \/ IsStr(RawRarity(e)) /\ ~NumericText(RawRarity(e).s)
    \/ IsInt(RawRarity(e)) /\ RawRarity(e).n < 0
\* the name an entry resolves to: its name field, else the one derived from its slug
RECURSIVE SlugWords(_, _)
SlugWords(slug, i) ==
    IF i > Len(slug) THEN <<>>
    ELSE (IF slug[i] = 45 THEN <<32>>
          ELSE IF i = 1 \/ slug[i - 1] = 45 THEN TitleFull(slug[i]) ELSE <<slug[i]>>)
         \o SlugWords(slug, i + 1)
EntryName(e) ==
    IF Truthy(Get(e.item, k_name)) THEN Format(Get(e.item, k_name)) ELSE SlugWords(e.slug, 1)
\* the name of a record as text: a material's name is text, the other
\* records carry the value the API gave
RecordName(r) == IF arg.kind = "materials" THEN r.name ELSE Format(r.name)
DefaultRarity(kind) ==
    CASE kind = "characters" -> 5
      [] kind = "weapons"    -> 4
      [] kind = "materials"  -> 1
      [] kind = "artifacts"  -> 0

\* C1: a malformed raw rarity (non-numeric string, missing, negative) never
\* makes fetch_characters, fetch_weapons or fetch_materials raise, the record
\* gets the default of its type (5, 4, 1), and every rarity is positive.
C1_MalformedRarityDefaults ==
    (FetchDone /\ arg.kind # "artifacts") =>
        /\ ret.raised = "none"
        /\ \A k \in 1..Len(ret.value) : ret.value[k].rarity > 0
        /\ \A i \in 1..Len(arg.entries) : \A k \in 1..Len(ret.value) :
              (MalformedRarity(arg.entries[i]) /\ RecordName(ret.value[k]) = EntryName(arg.entries[i]))
                  => ret.value[k].rarity = DefaultRarity(arg.kind)

\* C2: every record of the four fetch operations has a non-empty name; an
\* entry with no name and no non-empty slug is left out, so the output is
\* shorter than the input.
C2_NamesNeverEmpty ==
    (FetchDone /\ ret.raised = "none") =>
        /\ \A k \in 1..Len(ret.value) : RecordName(ret.value[k]) # <<>>
        /\ (\E i \in 1..Len(arg.entries) : Nameless(arg.entries[i]))
               => Len(ret.value) < Len(arg.entries)

\* an entry is well-formed: it has a name (or a slug to derive one from) and
\* a rarity that is absent or an integer or numeric text
WellFormed(e) ==
    /\ ~Nameless(e)
    /\ (arg.kind = "materials" => Truthy(Get(e.item, k_name)))
    /\ \/ ~Has(e.item, k_rarity)
       \/ IsInt(RawRarity(e))
       \/ IsStr(RawRarity(e)) /\ NumericText(RawRarity(e).s)
\* the names of the well-formed entries, in input order
RECURSIVE WellFormedNames(_)
WellFormedNames(es) ==
    IF es = <<>> THEN <<>>
    ELSE (IF WellFormed(Head(es)) THEN <<EntryName(Head(es))>> ELSE <<>>)
         \o WellFormedNames(Tail(es))
\* q is p with some members left out
RECURSIVE IsSubsequence(_, _)
IsSubsequence(p, q) ==
    IF p = <<>> THEN TRUE
    ELSE IF q = <<>> THEN FALSE
    ELSE IF Head(p) = Head(q) THEN IsSubsequence(Tail(p), Tail(q))
    ELSE IsSubsequence(p, Tail(q))

\* C7: a malformed item (unparseable rarity or missing name) never aborts
\* the fetch of its category: the records of the well-formed items are still
\* produced, in their original relative order.
C7_MalformedItemSkipped ==
    FetchDone =>
        /\ ret.raised = "none"
        /\ IsSubsequence(WellFormedNames(arg.entries),
                         [k \in 1..Len(ret.value) |-> RecordName(ret.value[k])])

\* the first non-empty text of two optional fields, lower-cased
FirstOf(item, k1, k2) ==
    IF Truthy(Get(item, k1)) THEN Get(item, k1).s
    ELSE IF Truthy(Get(item, k2)) THEN Get(item, k2).s
    ELSE <<>>

\* C10: for a character whose detail has no name, the record's name is the
\* slug with hyphens turned into spaces, title-cased; element comes from
\* vision else element and weapon_type from weapon else weapon_type, both
\* lower-cased; rarity is the integer value of the raw rarity.  Slug "amber"
\* with {vision: Pyro, weapon: Bow, rarity: "4"} gives Amber, pyro, bow, 4.
C10_CharacterRecord ==
    (pc = "fetch_characters" /\ ret.raised = "none") =>
        /\ Len(ret.value) = Len(arg.entries)
        /\ \A i \in 1..Len(arg.entries) :
             LET e == arg.entries[i]
                 r == ret.value[i]
             IN  /\ ~Truthy(Get(e.item, k_name)) => r.name = JStr(EntryName(e))
                 /\ Lower(FirstOf(e.item, k_vision, k_element)) = r.element
                 /\ Lower(FirstOf(e.item, k_weapon, k_weapon_type)) = r.weapon_type
                 /\ Lower(r.element) = r.element
                 /\ Lower(r.weapon_type) = r.weapon_type
                 /\ IsInt(RawRarity(e)) => r.rarity = RawRarity(e).n
                 /\ (IsStr(RawRarity(e)) /\ NumericText(RawRarity(e).s))
                        => IntToStr(r.rarity) = RawRarity(e).s
                 /\ e.slug = s_amber =>
                        /\ r.name = JStr(s_Amber) /\ r.element = s_pyro
                        /\ r.weapon_type = s_bow /\ r.rarity = 4
                 /\ e.slug = s_hu_tao => r.name = JStr(s_Hu_Tao)
                 /\ e.slug = s_e_clair =>
                        r.name = JStr(s_E_Clair) /\ r.element = s_electro_accent

C10_Witness ==
    /\ pc = "fetch_characters"
    /\ ret.raised = "none"
    /\ \E i \in 1..Len(ret.value) :
          /\ arg.entries[i].slug = s_amber
          /\ ~Has(arg.entries[i].item, k_name)
          /\ RawRarity(arg.entries[i]) = JStr(s_4)
          /\ ret.value[i].name = JStr(s_Amber)
          /\ ret.value[i].element = s_pyro
          /\ ret.value[i].weapon_type = s_bow
          /\ ret.value[i].rarity = 4

(***************************************************************************)
(* The commands and the admin as processes on the same tables.             *)
(*   Spec:       the import command run by itself, any number of times in  *)
(*               a row against the same remote API                         *)
(*   SpecShared: one run of the command while other processes write the    *)
(*               tables between any two of its steps: a second run of the  *)
(*               command, load_sample_data, the admin's add, change and    *)
(*               delete; at most MaxWriters kinds of them in a behaviour   *)
(*               and at most MaxEdits edits in the admin                   *)
(* A step of a command is one GET request or one call of the database:     *)
(* handle opens no transaction, each call is committed by itself.          *)
(***************************************************************************)
MaxEdits == 2
MaxWriters == 1

\* no second command, no load_sample_data, no admin edit so far
NoWriters ==
    /\ other = NotRunning
    /\ sample = NotLoading
    /\ edits = 0

\* the command starts
Start ==
    /\ pc = Started.pc
    /\ ret = Started.ret
    /\ characters = Started.characters
    /\ weapon_map = Started.weapon_map
    /\ artifact_map = Started.artifact_map
    /\ cursor = Started.cursor
    /\ log = <<>>
    /\ run = 1

Init ==
    /\ arg \in ImportScenarios
    /\ upstream = ImportUpstream(arg)
    /\ \E db \in Stores : store = db.store /\ last_id = db.last_id
    /\ before = store
    /\ Start
    /\ NoWriters

\* the local state of the command under way
Main == Process(pc, ret, characters, weapon_map, artifact_map, cursor)

\* the command takes the step
Continue(s) ==
    /\ pc' = s.p.pc
    /\ ret' = s.p.ret
    /\ characters' = s.p.characters
    /\ weapon_map' = s.p.weapon_map
    /\ artifact_map' = s.p.artifact_map
    /\ cursor' = s.p.cursor
    /\ store' = s.store
    /\ last_id' = s.last_id
    /\ log' = log \o s.events
    /\ UNCHANGED <<arg, upstream, run, before, other, sample, edits>>

\* characters = client.fetch_characters() and "for character in characters":
\* one GET request or one upsert
HandleCharacters ==
    /\ pc = "characters"
    /\ \E s \in {CharactersStep(Main, store, last_id, upstream)} : Continue(s)

\* materials = client.fetch_materials() and "for material in materials"
HandleMaterials ==
    /\ pc = "materials"
    /\ \E s \in {MaterialsStep(Main, store, last_id, upstream)} : Continue(s)

\* weapons = client.fetch_weapons(), weapon_map = {} and "for weapon in weapons"
HandleWeapons ==
    /\ pc = "weapons"
    /\ \E s \in {WeaponsStep(Main, store, last_id, upstream)} : Continue(s)

\* artifact_sets = client.fetch_artifacts(), artifact_map = {} and
\* "for artifact in artifact_sets"
HandleArtifactSets ==
    /\ pc = "artifacts"
    /\ \E s \in {ArtifactSetsStep(Main, store, last_id, upstream)} : Continue(s)

\* "for payload in characters": one call of the database
HandleBuildData ==
    /\ pc = "build"
    /\ \E s \in {BuildDataStep(Main, store, last_id)} : Continue(s)

\* the command is run again, any number of times: the store is what the runs
\* before have left; the remote API answers as before.  run is 1 in the
\* first run and 2 in every later one.
Rerun ==
    /\ pc \in {"done", "aborted"}
    /\ run' = IF run = 1 THEN 2 ELSE run
    /\ before' = store
    /\ pc' = Started.pc
    /\ ret' = Started.ret
    /\ characters' = Started.characters
    /\ weapon_map' = Started.weapon_map
    /\ artifact_map' = Started.artifact_map
    /\ cursor' = Started.cursor
    /\ log' = <<>>
    /\ UNCHANGED <<arg, upstream, store, last_id, other, sample, edits>>

Next ==
    \/ HandleCharacters
    \/ HandleMaterials
    \/ HandleWeapons
    \/ HandleArtifactSets
    \/ HandleBuildData
    \/ Rerun

Spec == Init /\ [][Next]_vars

\* the kinds of other processes that have written or are under way; at most
\* MaxWriters kinds in a behaviour
Writers ==
    {k \in {"import", "sample", "admin"} :
        \/ k = "import" /\ other.pc # "idle"
        \/ k = "sample" /\ sample.pc # "idle"
        \/ k = "admin" /\ edits > 0}
MayWrite(k) == Cardinality(Writers \cup {k}) <= MaxWriters

\* python manage.py import_genshin_blue by another process, against the same
\* remote API: it starts, or takes its next step
ImportAlongside ==
    /\ MayWrite("import")
    /\ other.pc \notin {"done", "aborted"}
    /\ IF other.pc = "idle"
       THEN /\ other' = Started
            /\ UNCHANGED <<store, last_id>>
       ELSE \E s \in {ImportStep(other, store, last_id, upstream)} :
               /\ other' = s.p
               /\ store' = s.store
               /\ last_id' = s.last_id
    /\ UNCHANGED <<pc, arg, ret, upstream, weapon_map, artifact_map, characters, cursor, log,
                   run, before, sample, edits>>

\* the get_or_create calls of load_sample_data.Command.handle, in order:
\* the model, the local variable the instance is bound to ("_" for none),
\* the lookup values and the local variables passed as foreign keys
SAMPLE_DATA == <<
    [model |-> "Character", var |-> "amber",
     lookup |-> [
        name |-> <<65,109,98,101,114>>,  \* "Amber"
        element |-> <<112,121,114,111>>,  \* "pyro"
        weapon_type |-> <<98,111,119>>,  \* "bow"
        rarity |-> 4,
        role |-> <<66,111,119,32,68,80,83>>],  \* "Bow DPS"
     refs |-> <<>>],
    [model |-> "Character", var |-> "xiangling",
     lookup |-> [
        name |-> <<88,105,97,110,103,108,105,110,103>>,  \* "Xiangling"
        element |-> <<112,121,114,111>>,  \* "pyro"
        weapon_type |-> <<112,111,108,101,97,114,109>>,  \* "polearm"
        rarity |-> 4,
        role |-> <<79,102,102,45,102,105,101,108,100,32,68,80,83>>],  \* "Off-field DPS"
     refs |-> <<>>],
    [model |-> "Weapon", var |-> "skyward",
     lookup |-> [
        name |-> <<83,107,121,119,97,114,100,32,72,97,114,112>>,  \* "Skyward Harp"
        weapon_type |-> <<98,111,119>>,  \* "bow"
        rarity |-> 5],
     refs |-> <<>>],
    [model |-> "Weapon", var |-> "favonius",
     lookup |-> [
        name |-> <<70,97,118,111,110,105,117,115,32,76,97,110,99,101>>,  \* "Favonius Lance"
        weapon_type |-> <<112,111,108,101,97,114,109>>,  \* "polearm"
        rarity |-> 4],
     refs |-> <<>>],
    [model |-> "ArtifactSet", var |-> "crimson",
     lookup |-> [
        name |-> <<67,114,105,109,115,111,110,32,87,105,116,99,104,32,111,102,32,70,108,97,109,101,115>>,  \* "Crimson Witch of Flames"
        two_piece_bonus |-> <<43,49,53,37,32,80,121,114,111,32,68,77,71,32,66,111,110,117,115>>,  \* "+15% Pyro DMG Bonus"
        four_piece_bonus |-> <<80,121,114,111,32,68,77,71,32,98,111,110,117,115,32,105,110,99,114,101,97,115,101,115,32,97,102,116,101,114,32,117,115,105,110,103,32,69,108,101,109,101,110,116,97,108,32,83,107,105,108,108>>],  \* "Pyro DMG bonus increases after using Elemental Skill"
     refs |-> <<>>],
    [model |-> "ArtifactSet", var |-> "emblems",
     lookup |-> [
        name |-> <<69,109,98,108,101,109,32,111,102,32,83,101,118,101,114,101,100,32,70,97,116,101>>,  \* "Emblem of Severed Fate"
        two_piece_bonus |-> <<43,50,48,37,32,69,110,101,114,103,121,32,82,101,99,104,97,114,103,101>>,  \* "+20% Energy Recharge"
        four_piece_bonus |-> <<66,117,114,115,116,32,68,77,71,32,105,110,99,114,101,97,115,101,115,32,119,105,116,104,32,69,110,101,114,103,121,32,82,101,99,104,97,114,103,101>>],  \* "Burst DMG increases with Energy Recharge"
     refs |-> <<>>],
    [model |-> "Material", var |-> "pyro_regisvine",
     lookup |-> [
        name |-> <<65,103,110,105,100,117,115,32,65,103,97,116,101,32,67,104,117,110,107>>,  \* "Agnidus Agate Chunk"
        material_type |-> <<99,104,97,114,97,99,116,101,114>>,  \* "character"
        rarity |-> 4,
        source |-> <<80,121,114,111,32,82,101,103,105,115,118,105,110,101>>],  \* "Pyro Regisvine"
     refs |-> <<>>],
    [model |-> "Material", var |-> "hilichurl_arrow",
     lookup |-> [
        name |-> <<70,105,114,109,32,65,114,114,111,119,104,101,97,100>>,  \* "Firm Arrowhead"
        material_type |-> <<116,97,108,101,110,116>>,  \* "talent"
        rarity |-> 2,
        source |-> <<72,105,108,105,99,104,117,114,108,115>>],  \* "Hilichurls"
     refs |-> <<>>],
    [model |-> "Material", var |-> "everflame",
     lookup |-> [
        name |-> <<69,118,101,114,102,108,97,109,101,32,83,101,101,100>>,  \* "Everflame Seed"
        material_type |-> <<99,104,97,114,97,99,116,101,114>>,  \* "character"
        rarity |-> 4,
        source |-> <<80,121,114,111,32,82,101,103,105,115,118,105,110,101>>],  \* "Pyro Regisvine"
     refs |-> <<>>],
    [model |-> "CharacterMaterialRequirement", var |-> "_",
     lookup |-> [
        quantity |-> 9,
        category |-> <<97,115,99,101,110,115,105,111,110>>],  \* "ascension"
     refs |-> [character |-> "amber", material |-> "pyro_regisvine"]],
    [model |-> "CharacterMaterialRequirement", var |-> "_",
     lookup |-> [
        quantity |-> 36,
        category |-> <<116,97,108,101,110,116>>],  \* "talent"
     refs |-> [character |-> "amber", material |-> "hilichurl_arrow"]],
    [model |-> "CharacterMaterialRequirement", var |-> "_",
     lookup |-> [
        quantity |-> 6,
        category |-> <<97,115,99,101,110,115,105,111,110>>],  \* "ascension"
     refs |-> [character |-> "xiangling", material |-> "everflame"]],
    [model |-> "CharacterTalent", var |-> "_",
     lookup |-> [
        name |-> <<78,111,114,109,97,108,32,65,116,116,97,99,107,58,32,83,104,97,114,112,115,104,111,111,116,101,114>>,  \* "Normal Attack: Sharpshooter"
        recommended_priority |-> 3],
     refs |-> [character |-> "amber"]],
    [model |-> "CharacterTalent", var |-> "_",
     lookup |-> [
        name |-> <<69,120,112,108,111,115,105,118,101,32,80,117,112,112,101,116>>,  \* "Explosive Puppet"
        recommended_priority |-> 2],
     refs |-> [character |-> "amber"]],
    [model |-> "CharacterTalent", var |-> "_",
     lookup |-> [
        name |-> <<70,105,101,114,121,32,82,97,105,110>>,  \* "Fiery Rain"
        recommended_priority |-> 1],
     refs |-> [character |-> "amber"]],
    [model |-> "CharacterTalent", var |-> "_",
     lookup |-> [
        name |-> <<68,111,117,103,104,45,70,117>>,  \* "Dough-Fu"
        recommended_priority |-> 2],
     refs |-> [character |-> "xiangling"]],
    [model |-> "CharacterTalent", var |-> "_",
     lookup |-> [
        name |-> <<71,117,111,98,97,32,65,116,116,97,99,107>>,  \* "Guoba Attack"
        recommended_priority |-> 3],
     refs |-> [character |-> "xiangling"]],
    [model |-> "CharacterTalent", var |-> "_",
     lookup |-> [
        name |-> <<80,121,114,111,110,97,100,111>>,  \* "Pyronado"
        recommended_priority |-> 1],
     refs |-> [character |-> "xiangling"]],
    [model |-> "CharacterWeaponRecommendation", var |-> "_",
     lookup |-> [
        ranking |-> 1],
     refs |-> [character |-> "amber", weapon |-> "skyward"]],
    [model |-> "CharacterWeaponRecommendation", var |-> "_",
     lookup |-> [
        ranking |-> 2],
     refs |-> [character |-> "xiangling", weapon |-> "favonius"]],
    [model |-> "CharacterArtifactRecommendation", var |-> "_",
     lookup |-> [
        ranking |-> 1],
     refs |-> [character |-> "amber", artifact_set |-> "crimson"]],
    [model |-> "CharacterArtifactRecommendation", var |-> "_",
     lookup |-> [
        ranking |-> 1],
     refs |-> [character |-> "xiangling", artifact_set |-> "emblems"]] >>

\* python manage.py load_sample_data by another process: its next
\* get_or_create call, committed by itself; an exception ends the command
LoadSampleData ==
    /\ MayWrite("sample")
    /\ sample.pc \in {"idle", "running"}
    /\ LET call   == SAMPLE_DATA[sample.n + 1]
           lookup == [f \in DOMAIN call.refs |-> sample.objs[call.refs[f]]] @@ call.lookup
           got    == get_or_create(store, last_id, call.model, lookup)
       IN  /\ store' = got.store
           /\ last_id' = got.last_id
           /\ sample' =
                 IF got.raised # "none"
                 THEN [sample EXCEPT !.pc = "aborted", !.ret = got.raised]
                 ELSE [sample EXCEPT
                          !.pc = IF sample.n + 1 = Len(SAMPLE_DATA) THEN "done" ELSE "running",
                          !.n = @ + 1,
                          !.objs = (call.var :> got.row.id) @@ @]
    /\ UNCHANGED <<pc, arg, ret, upstream, weapon_map, artifact_map, characters, cursor, log,
                   run, before, other, edits>>

s_talent == <<116,97,108,101,110,116>>  \* "talent"
s_general == <<103,101,110,101,114,97,108>>  \* "general"
s_ascension == <<97,115,99,101,110,115,105,111,110>>  \* "ascension"

\* admin.site.register gives every model an add, a change and a delete view.
\* A view runs in a transaction of its own, so an edit is one step.  The
\* form of a model has all its fields; it is saved when it is valid: a
\* required text is not empty, a choice field has one of its choices, a
\* number is not negative, a foreign key is the id of a stored row, and no
\* other row has the unique fields.  OwnedCharacter, OwnedMaterialStock and
\* TalentProgress are registered too: the import neither reads nor writes
\* their tables, and no foreign key of the eight tables below points at them,
\* so an edit of theirs changes no row kept here.
\* The names typed into a form: one the import uses and one it does not.
AdminNames(model) ==
    CASE model = "Character" -> {s_Amber, s_Old}
      [] model = "Weapon" -> {s_Foobar_Blade, s_Old}
      [] model = "ArtifactSet" -> {s_Wanderer, s_Old}
      [] model = "Material" -> {s_Jade, s_Old}
      [] model = "CharacterTalent" -> {s_Aim, s_Old}
      [] OTHER -> {}
\* the other values typed into a form, two for each kind of field
AdminFillings ==
    { [text |-> <<>>, number |-> 0, element |-> s_pyro, weapon_type |-> s_bow,
       material_type |-> s_talent, category |-> s_ascension],
      [text |-> s_Old, number |-> 3, element |-> s_cryo, weapon_type |-> s_sword,
       material_type |-> s_general, category |-> s_talent] }
\* the rows a foreign key of a form can choose from
Ids(st, model) == {st[model][n].id : n \in 1..Len(st[model])}
\* the valid forms of a model
AdminForms(st, model) ==
    CASE model = "Character" ->
             { [name |-> name, element |-> f.element, rarity |-> f.number, role |-> f.text,
                weapon_type |-> f.weapon_type, description |-> f.text] :
                 name \in AdminNames(model), f \in AdminFillings }
      [] model = "Weapon" ->
             { [name |-> name, weapon_type |-> f.weapon_type, rarity |-> f.number,
                source |-> f.text, description |-> f.text] :
                 name \in AdminNames(model), f \in AdminFillings }
      [] model = "ArtifactSet" ->
             { [name |-> name, two_piece_bonus |-> f.text, four_piece_bonus |-> f.text] :
                 name \in AdminNames(model), f \in AdminFillings }
      [] model = "Material" ->
             { [name |-> name, material_type |-> f.material_type, rarity |-> f.number,
                source |-> f.text] :
                 name \in AdminNames(model), f \in AdminFillings }
      [] model = "CharacterMaterialRequirement" ->
             { [character |-> character, material |-> material, quantity |-> f.number,
                category |-> f.category, notes |-> f.text] :
                 character \in Ids(st, "Character"), material \in Ids(st, "Material"),
                 f \in AdminFillings }
      [] model = "CharacterTalent" ->
             { [character |-> character, name |-> name, description |-> f.text,
                recommended_priority |-> f.number] :
                 character \in Ids(st, "Character"), name \in AdminNames(model),
                 f \in AdminFillings }
      [] model = "CharacterWeaponRecommendation" ->
             { [character |-> character, weapon |-> weapon, ranking |-> f.number,
                note |-> f.text] :
                 character \in Ids(st, "Character"), weapon \in Ids(st, "Weapon"),
                 f \in AdminFillings }
      [] model = "CharacterArtifactRecommendation" ->
             { [character |-> character, artifact_set |-> artifact_set, ranking |-> f.number,
                note |-> f.text] :
                 character \in Ids(st, "Character"), artifact_set \in Ids(st, "ArtifactSet"),
                 f \in AdminFillings }

\* the admin may edit; an edit is saved
MayEdit == MayWrite("admin") /\ edits < MaxEdits
Edit(st, ids) ==
    /\ edits' = edits + 1
    /\ store' = st
    /\ last_id' = ids
    /\ UNCHANGED <<pc, arg, ret, upstream, weapon_map, artifact_map, characters, cursor, log,
                   run, before, other, sample>>

\* the add view of a model: the row of a valid form is inserted
AdminAdd ==
    /\ MayEdit
    /\ \E model \in Models : \E form \in AdminForms(store, model) :
          /\ ~Duplicate(store[model], model, [id |-> 0] @@ form)
          /\ \E added \in {Insert(store, last_id, model, form)} :
                Edit(added.store, added.last_id)

\* the change view of a row: the row takes every field of a valid form and
\* keeps its id
AdminChange ==
    /\ MayEdit
    /\ \E model \in Models : \E n \in 1..Len(store[model]) :
          \E row \in {[id |-> store[model][n].id] @@ form : form \in AdminForms(store, model)} :
              /\ row # store[model][n]
              /\ ~Duplicate(store[model], model, row)
              /\ Edit([store EXCEPT ![model][n] = row], last_id)

\* the delete view: a row is deleted, and the rows that point to it with it
AdminDelete ==
    /\ MayEdit
    /\ \E model \in Models : \E n \in 1..Len(store[model]) :
          Edit(Delete(store, model, store[model][n].id), last_id)

\* one character with a talent, a recommended weapon of the catalog and one
\* that is not, likewise for the artifact sets; one material
RustOnly ==
    << Entry(s_rust, JDict(<<KV(k_type, JStr(s_Bow)), KV(k_rarity, JInt(4)),
                             KV(k_source, JStr(s_Gacha))>>)) >>
SharedScenarios ==
    [ kind      : {"import"},
      entries   : {<<AmberEntry>>},
      materials : {JadeOnly},
      weapons   : {RustOnly},
      artifacts : {GladiatorOnly},
      failure   : {NoFailure, [path |-> p_weapons_rust, status |-> 503]} ]
    \cup
    [ kind      : {"import"},
      entries   : {<<HuTaoEntry>>},
      materials : {<<>>},
      weapons   : {RustOnly},
      artifacts : {<<>>},
      failure   : {NoFailure} ]

InitShared ==
    /\ arg \in SharedScenarios
    /\ upstream = ImportUpstream(arg)
    /\ \E db \in Stores : store = db.store /\ last_id = db.last_id
    /\ before = store
    /\ Start
    /\ NoWriters

NextShared ==
    \/ HandleCharacters
    \/ HandleMaterials
    \/ HandleWeapons
    \/ HandleArtifactSets
    \/ HandleBuildData
    \/ ImportAlongside
    \/ LoadSampleData
    \/ AdminAdd
    \/ AdminChange
    \/ AdminDelete

SpecShared == InitShared /\ [][NextShared]_vars

RunOver == pc \in {"done", "aborted"}
Upserts == {n \in 1..Len(log) : log[n].op = "upsert"}
Gets == {n \in 1..Len(log) : log[n].op = "get"}

\* C3: a run that follows a run against the same remote API creates no
\* entity of any model, and when it is over (completed or aborted) the store
\* is row for row, field for field, what it was when that run started.
C3_SecondRunIdempotent ==
    run > 1 =>
        /\ \A n \in Upserts : ~log[n].created
        /\ \A m \in DOMAIN store : Len(store[m]) = Len(before[m])
        /\ RunOver => store = before

\* the key of a row of a model, as the upserts look it up
\* (a foreign key stands for the name of the row it points to)
NameIn(st, model, id) == st[model][Position(st[model], [id |-> id])].name
RowKey(st, model, row) ==
    CASE model \in Named -> <<row.name>>
      [] model = "CharacterTalent" -> <<NameIn(st, "Character", row.character), row.name>>
      [] model = "CharacterMaterialRequirement" ->
             <<NameIn(st, "Character", row.character), NameIn(st, "Material", row.material),
               row.category>>
      [] model = "CharacterWeaponRecommendation" ->
             <<NameIn(st, "Character", row.character), NameIn(st, "Weapon", row.weapon)>>
      [] model = "CharacterArtifactRecommendation" ->
             <<NameIn(st, "Character", row.character),
               NameIn(st, "ArtifactSet", row.artifact_set)>>
Stored(model, key) ==
    \E n \in 1..Len(store[model]) : RowKey(store, model, store[model][n]) = key
FailedGet(n) == log[n].op = "get" /\ RaiseForStatus(Route(upstream, log[n].path).status)

LinkModel(kind) ==
    IF kind = "Weapon" THEN "CharacterWeaponRecommendation"
    ELSE "CharacterArtifactRecommendation"
RecsOf(kind, payload) ==
    IF kind = "Weapon" THEN payload.weapon_recommendations
    ELSE payload.artifact_recommendations
\* the recommended names of the run, in processing order
RECURSIVE AllRecNames(_, _)
AllRecNames(kind, p) ==
    IF p > Len(characters) THEN <<>>
    ELSE [r \in 1..Len(RecsOf(kind, characters[p])) |-> RecsOf(kind, characters[p])[r].name]
         \o AllRecNames(kind, p + 1)
\* the lower-cased names of the catalog entities the run upserted
CatalogLower(kind) ==
    { Lower(log[n].key[1]) : n \in {m \in Upserts : log[m].model = kind
                                                    /\ log[m].step = "catalog"} }
\* the lower-cased recommended names that match no catalog entity
Unmatched(kind) ==
    { Lower(AllRecNames(kind, 1)[n]) : n \in 1..Len(AllRecNames(kind, 1)) }
        \ CatalogLower(kind)
\* the placeholder upserts of a lower-cased name
Placeholders(kind, lname) ==
    { n \in Upserts : /\ log[n].model = kind
                      /\ log[n].step = "placeholder"
                      /\ Lower(log[n].key[1]) = lname }
\* the spelling under which the name is recommended first
FirstSpelling(kind, lname) ==
    LET names == AllRecNames(kind, 1)
    IN  names[CHOOSE n \in 1..Len(names) :
                 /\ Lower(names[n]) = lname
                 /\ \A m \in 1..(n - 1) : Lower(names[m]) # lname]
Recommends(kind, payload, lname) ==
    \E r \in 1..Len(RecsOf(kind, payload)) : Lower(RecsOf(kind, payload)[r].name) = lname
\* every payload that recommends the name has its link to the entity, and
\* no link upsert of the run under that name goes to another entity
LinksPointAt(kind, lname, entity) ==
    /\ \A p \in 1..Len(characters) :
          Recommends(kind, characters[p], lname)
              => Stored(LinkModel(kind), <<CharacterOf(characters[p]), entity>>)
    /\ \A n \in Upserts :
          (log[n].model = LinkModel(kind) /\ Lower(log[n].key[2]) = lname)
              => log[n].key[2] = entity

\* C4 as stated: in a completed run every recommended weapon or artifact-set
\* name that matches no catalog entity has exactly one placeholder entity
\* created for it (names compared case-insensitively), and the links of all
\* the characters recommending it point at that one entity.
C4_ExactlyOnePlaceholderCreated ==
    pc = "done" =>
        \A kind \in {"Weapon", "ArtifactSet"} : \A lname \in Unmatched(kind) :
            /\ Cardinality({n \in Placeholders(kind, lname) : log[n].created}) = 1
            /\ LinksPointAt(kind, lname, FirstSpelling(kind, lname))

\* C4, amended: in a completed run every recommended name that matches no
\* catalog entity gets exactly one placeholder upsert, under its first
\* spelling; the upsert creates the entity when the store held none of
\* exactly that name at the start of the run and reuses the stored one
\* otherwise (so at most one entity is created, and none in a second run);
\* the store holds one entity of that name and the links of all the
\* characters recommending the name point at it.
C4_OnePlaceholderReused ==
    pc = "done" =>
        \A kind \in {"Weapon", "ArtifactSet"} : \A lname \in Unmatched(kind) :
            LET entity == FirstSpelling(kind, lname)
            IN  /\ Cardinality(Placeholders(kind, lname)) = 1
                /\ \A n \in Placeholders(kind, lname) :
                      /\ log[n].key = <<entity>>
                      /\ log[n].created = ~Exists(before[kind], [name |-> entity])
                /\ Cardinality({r \in 1..Len(store[kind]) : store[kind][r].name = entity}) = 1
                /\ LinksPointAt(kind, lname, entity)

C4_Witness ==
    /\ pc = "done"
    /\ run = 1
    /\ before = EmptyStore
    /\ s_foobar_blade \in Unmatched("Weapon")
    /\ \E p, q \in 1..Len(characters) :
          /\ CharacterOf(characters[p]) # CharacterOf(characters[q])
          /\ \E r \in 1..Len(characters[p].weapon_recommendations) :
                characters[p].weapon_recommendations[r].name = s_Foobar_Blade
          /\ \E r \in 1..Len(characters[q].weapon_recommendations) :
                characters[q].weapon_recommendations[r].name = s_foobar_blade
          /\ Stored("CharacterWeaponRecommendation", <<CharacterOf(characters[p]), s_Foobar_Blade>>)
          /\ Stored("CharacterWeaponRecommendation", <<CharacterOf(characters[q]), s_Foobar_Blade>>)
    /\ Cardinality({n \in Placeholders("Weapon", s_foobar_blade) : log[n].created}) = 1
    /\ Stored("Weapon", <<s_Foobar_Blade>>)
    /\ ~Stored("Weapon", <<s_foobar_blade>>)

\* C6: a GET answered with a 4xx/5xx status is the last thing the run does:
\* it is in the log once, no request and no upsert follows it, the run is
\* aborted with the HTTP error, and every entity upserted before it is still
\* in the store.
C6_FailurePropagates ==
    \A n \in 1..Len(log) :
        FailedGet(n) =>
            /\ n = Len(log)
            /\ pc = "aborted"
            /\ ret = "HTTPError"
            /\ \A m \in Upserts : Stored(log[m].model, log[m].key)

C6_Witness ==
    /\ pc = "aborted"
    /\ run = 1
    /\ before = EmptyStore
    /\ FailedGet(Len(log))
    /\ log[Len(log)].path = p_weapons_rust
    /\ \E m \in Upserts : log[m].model = "Character" /\ Stored("Character", log[m].key)
    /\ \E m \in Upserts : log[m].model = "Material" /\ Stored("Material", log[m].key)
    /\ store.Weapon = <<>>

(***************************************************************************)
(* SpecTalents: one call of normalize_talents                              *)
(***************************************************************************)
s_Burst == <<66,117,114,115,116>>  \* "Burst"
s_Skill == <<83,107,105,108,108>>  \* "Skill"
s_aim == <<97,105,109>>  \* "aim"
s_AIM == <<65,73,77>>  \* "AIM"
s_a == <<97>>  \* "a"
s_b == <<98>>  \* "b"
s_c == <<99>>  \* "c"
s_d == <<100>>  \* "d"
MaxTalents == 3

\* raw talents: plain names, objects named by "name" or "title", an object
\* and a string without a name
TalentItems ==
    { JStr(s_Aim), JStr(s_Burst), JStr(<<>>),
      JDict(<<KV(k_name, JStr(s_Aim)), KV(k_description, JStr(s_A))>>),
      JDict(<<KV(k_title, JStr(s_Skill)), KV(k_info, JStr(s_B))>>),
      JDict(<<>>) }

\* explicit priority lists: none, lists with other spellings, with a
\* repeated name and an entry that is no string, and a value that is no list
TalentPriorities ==
    { <<>>,
      <<KV(k_talent_priority, StrItems(<<s_aim>>))>>,
      <<KV(k_priority, StrItems(<<s_Burst, s_AIM>>))>>,
      <<KV(k_talent_priority, JList(<<JStr(s_Skill), JInt(3), JStr(s_aim)>>))>>,
      <<KV(k_talent_priority, JList(<<>>)), KV(k_priority, StrItems(<<s_Skill, s_Aim, s_aim>>))>>,
      <<KV(k_priority, JStr(s_Aim))>> }

TalentScenarios ==
    [ shape    : {"list", "dict"},
      field    : {k_talents, k_skills},
      items    : SeqsUpTo(TalentItems, MaxTalents),
      priority : TalentPriorities ]

\* the keys a dict of talents is served under, in order
TalentDictKeys == <<s_a, s_b, s_c, s_d>>

\* the character detail of a scenario
TalentDetail(sc) ==
    JDict(<<KV(sc.field,
               IF sc.shape = "list" THEN JList(sc.items)
               ELSE JDict([n \in 1..Len(sc.items) |-> KV(TalentDictKeys[n], sc.items[n])]))>>
          \o sc.priority)

InitTalents ==
    /\ pc = "call"
    /\ arg \in TalentScenarios
    /\ ret = <<>>
    /\ upstream = <<>>
    /\ NoImport

NormalizeTalents ==
    /\ pc = "call"
    /\ ret' = IF normalize_talents_exc(TalentDetail(arg)) # "none"
              THEN Raised(normalize_talents_exc(TalentDetail(arg)), <<>>)
              ELSE Returned(normalize_talents(TalentDetail(arg)), <<>>)
    /\ pc' = "return"
    /\ UNCHANGED <<arg, upstream, handle_vars>>

NextTalents == NormalizeTalents

SpecTalents == InitTalents /\ [][NextTalents]_vars

\* the name a raw talent is emitted under, "" when it is skipped
RawTalentName(talent) ==
    IF IsStr(talent) THEN talent.s
    ELSE IF Truthy(Get(talent, k_name)) THEN Get(talent, k_name).s
    ELSE IF Truthy(Get(talent, k_title)) THEN Get(talent, k_title).s
    ELSE <<>>
\* the positions of the raw talents that have a name, in order
NamedPositions(items) ==
    SelectSeq([n \in 1..Len(items) |-> n], LAMBDA n : RawTalentName(items[n]) # <<>>)

\* C11: talents served as a dict give the same records as the list of that
\* dict's values: one record per named value, in the dict's order.
C11_DictTalentsAsList ==
    (pc = "return" /\ arg.shape = "dict") =>
        /\ ret.raised = "none"
        /\ ret.value = normalize_talents(TalentDetail([arg EXCEPT !.shape = "list"]))
        /\ Len(ret.value) = Len(NamedPositions(arg.items))

\* the explicit priority list of a scenario: "talent_priority", else
\* "priority"; no entries when the value is no list
ExplicitPriority(sc) ==
    LET given == IF Truthy(Get(JDict(sc.priority), k_talent_priority))
                 THEN Get(JDict(sc.priority), k_talent_priority)
                 ELSE Get(JDict(sc.priority), k_priority)
    IN  IF IsList(given) THEN given.items ELSE <<>>
\* the positions of the priority list that hold the name, whatever the case
PriorityPositions(sc, name) ==
    { n \in 1..Len(ExplicitPriority(sc)) :
        /\ IsStr(ExplicitPriority(sc)[n])
        /\ Lower(ExplicitPriority(sc)[n].s) = Lower(name) }

\* C12: a talent whose name is, case-insensitively, an entry of the explicit
\* priority list has that entry's 1-based position as priority; any other
\* talent has its own 1-based position in the talent sequence.
C12_TalentPriority ==
    (pc = "return" /\ arg.shape = "list" /\ ret.raised = "none") =>
        /\ Len(ret.value) = Len(NamedPositions(arg.items))
        /\ \A k \in 1..Len(ret.value) :
              /\ ret.value[k].name = RawTalentName(arg.items[NamedPositions(arg.items)[k]])
              /\ IF PriorityPositions(arg, ret.value[k].name) # {}
                 THEN ret.value[k].priority \in PriorityPositions(arg, ret.value[k].name)
                 ELSE ret.value[k].priority = NamedPositions(arg.items)[k]

C12_Witness ==
    /\ pc = "return"
    /\ arg.shape = "list"
    /\ ret.raised = "none"
    /\ \E k \in 1..Len(ret.value) :
          /\ ret.value[k].name = s_Aim
          /\ PriorityPositions(arg, s_Aim) = {3}
          /\ ret.value[k].priority = 3
          /\ NamedPositions(arg.items)[k] # 3
    /\ \E k \in 1..Len(ret.value) :
          /\ PriorityPositions(arg, ret.value[k].name) = {}
          /\ ret.value[k].priority = NamedPositions(arg.items)[k]
          /\ ret.value[k].priority > k

(***************************************************************************)
(* SpecWalk: one call of extract_items_from_category_payload               *)
(***************************************************************************)
s_S == <<83>>  \* "S"
s_T == <<84>>  \* "T"
s_G == <<71>>  \* "G"
s_B_padded == <<32,66,32>>  \* " B "
s_x == <<120>>  \* "x"
MaxWidth == 2

\* leaves: two items (one with a source of its own), a mapping with a name
\* but none of the item keys, a mapping with a blank name, and scalars
WalkItemPlain  == JDict(<<KV(k_name, JStr(s_Jade)), KV(k_id, JStr(s_jade))>>)
WalkItemSource ==
    JDict(<<KV(k_name, JStr(s_Ore)), KV(k_rarity, JInt(2)), KV(k_source, JStr(s_B_padded))>>)
WalkLeaves ==
    { WalkItemPlain, WalkItemSource,
      JDict(<<KV(k_name, JStr(s_Fish))>>),
      JDict(<<KV(k_name, JStr(s_blank)), KV(k_id, JStr(s_x))>>),
      JStr(s_x) }

\* an item that is also a container: its "characters" holds further nodes
WalkNested(children) ==
    JDict(<<KV(k_name, JStr(s_Gem)), KV(k_sources, StrItems(<<s_G>>)),
            KV(k_characters, JList(children))>>)

WalkLists == SeqsUpTo({WalkItemPlain, WalkItemSource, JInt(1)}, MaxWidth)
WalkSubtrees ==
    WalkLeaves
    \cup { JList(l) : l \in WalkLists }
    \cup { WalkNested(l) : l \in WalkLists }

\* the sources a container defines: none, a list, a padded string, or both
WalkSourceFields ==
    { <<>>,
      <<KV(k_sources, StrItems(<<s_S, s_T>>))>>,
      <<KV(k_source, JStr(s_A_padded))>>,
      <<KV(k_sources, StrItems(<<s_S>>)), KV(k_source, JStr(s_T))>> }

\* the second subtree of a payload: a leaf, or an item holding an item
WalkSiblings == WalkLeaves \cup { WalkNested(<<WalkItemPlain>>) }

\* category payloads: a tree keyed by region, a wrapper {"id", "items"}, a
\* list, each over a subtree and a sibling
WalkPayloads ==
    { JDict(f \o <<KV(s_mondstadt, a), KV(s_liyue, b)>>) :
        f \in WalkSourceFields, a \in WalkSubtrees, b \in WalkSiblings }
    \cup { JDict(<<KV(k_id, JStr(s_ores)), KV(k_items, JList(<<a, b>>))>>) :
             a \in WalkSubtrees, b \in WalkSiblings }
    \cup { JList(<<a, b>>) : a \in WalkSubtrees, b \in WalkSiblings }

InitWalk ==
    /\ pc = "call"
    /\ arg \in WalkPayloads
    /\ ret = <<>>
    /\ upstream = <<>>
    /\ NoImport

ExtractItems ==
    /\ pc = "call"
    /\ ret' = extract_items_from_category_payload(arg)
    /\ pc' = "return"
    /\ UNCHANGED <<arg, upstream, handle_vars>>

NextWalk == ExtractItems

SpecWalk == InitWalk /\ [][NextWalk]_vars

\* every node of a payload with the keys and indices that lead to it, a
\* node before the nodes below it, siblings in their order
RECURSIVE Nodes(_, _)
RECURSIVE NodesBelow(_, _, _)
Nodes(node, steps) == <<[node |-> node, steps |-> steps]>> \o NodesBelow(node, steps, 1)
NodesBelow(node, steps, n) ==
    IF IsDict(node) /\ n <= Len(node.kv)
    THEN Nodes(node.kv[n].v, Append(steps, node.kv[n].k)) \o NodesBelow(node, steps, n + 1)
    ELSE IF IsList(node) /\ n <= Len(node.items)
    THEN Nodes(node.items[n], Append(steps, IntToStr(n - 1))) \o NodesBelow(node, steps, n + 1)
    ELSE <<>>

\* a mapping with a non-blank string name and one of the item keys
ItemNode(node) ==
    /\ IsDict(node)
    /\ \E n \in 1..Len(node.kv) :
          /\ node.kv[n].k = k_name
          /\ IsStr(node.kv[n].v)
          /\ \E c \in 1..Len(node.kv[n].v.s) : ~IsSpace(node.kv[n].v.s[c])
    /\ \E n \in 1..Len(node.kv) : node.kv[n].k \in {k_id, k_rarity, k_experience, k_characters}
ItemNodes(payload) == SelectSeq(Nodes(payload, <<>>), LAMBDA x : ItemNode(x.node))

\* the steps joined by "/"
RECURSIVE Slashed(_)
Slashed(steps) ==
    IF steps = <<>> THEN <<>>
    ELSE IF Len(steps) = 1 THEN steps[1]
    ELSE steps[1] \o <<47>> \o Slashed(Tail(steps))
\* an entry without the two tags the walk adds
Untagged(entry) ==
    JDict(SelectSeq(entry.kv, LAMBDA e : e.k \notin {k__path, k__inherited_sources}))

\* C13: extract_items_from_category_payload emits one entry per mapping node
\* that looks like an item, a node before the items nested in it and
\* siblings in their order, each tagged with the "/"-joined keys and list
\* indices from the root; scalars and other mappings emit nothing.
C13_WalkPreOrder ==
    pc = "return" =>
        /\ Len(ret) = Len(ItemNodes(arg))
        /\ \A k \in 1..Len(ret) :
              /\ Untagged(ret[k]) = ItemNodes(arg)[k].node
              /\ Get(ret[k], k__path) = JStr(Slashed(ItemNodes(arg)[k].steps))

C13_Witness ==
    /\ pc = "return"
    /\ Len(ret) = 4
    /\ Get(ret[1], k_name) = JStr(s_Gem)
    /\ Get(ret[1], k__path) = JStr(s_mondstadt)
    /\ Get(ret[2], k__path) = JStr(s_mondstadt \o <<47>> \o k_characters \o <<47, 48>>)
    /\ Get(ret[3], k_name) = JStr(s_Gem)
    /\ Get(ret[3], k__path) = JStr(s_liyue)
    /\ Get(ret[4], k__path) = JStr(s_liyue \o <<47>> \o k_characters \o <<47, 48>>)
    /\ IsDict(arg) /\ ~ItemNode(arg)
    /\ \E n \in 1..Len(Nodes(arg, <<>>)) : IsInt(Nodes(arg, <<>>)[n].node)

\* the source strings a node defines: those of "sources" when it has any,
\* else those of "source"; a string or the strings of a list, trimmed,
\* blank ones left out
TrimmedText(v) ==
    IF IsStr(v) /\ (\E c \in 1..Len(v.s) : ~IsSpace(v.s[c])) THEN <<Strip(v.s)>> ELSE <<>>
RECURSIVE TrimmedTexts(_)
TrimmedTexts(vs) ==
    IF vs = <<>> THEN <<>> ELSE TrimmedText(Head(vs)) \o TrimmedTexts(Tail(vs))
SourcesDefined(node) ==
    IF ~IsDict(node) THEN <<>>
    ELSE LET given == IF Truthy(Get(node, k_sources)) THEN Get(node, k_sources)
                      ELSE Get(node, k_source)
         IN  IF IsList(given) THEN TrimmedTexts(given.items) ELSE TrimmedText(given)
\* the child of a node one step down
Child(node, step) ==
    IF IsDict(node) THEN Get(node, step)
    ELSE node.items[CHOOSE n \in 1..Len(node.items) : IntToStr(n - 1) = step]
\* the sources defined from a node down along the steps, the last node included
RECURSIVE SourcesAlong(_, _)
SourcesAlong(node, steps) ==
    SourcesDefined(node)
    \o (IF steps = <<>> THEN <<>> ELSE SourcesAlong(Child(node, Head(steps)), Tail(steps)))
\* the inherited sources an entry carries, none when it has no such tag
InheritedOf(entry) ==
    IF Has(entry, k__inherited_sources)
    THEN [n \in 1..Len(Get(entry, k__inherited_sources).items) |->
             Get(entry, k__inherited_sources).items[n].s]
    ELSE <<>>

\* C14: the inherited sources of every emitted item are the sources defined
\* on the mappings from the root down to the item, the item included, in
\* that order; a source defined off that path is not among them.
C14_InheritedSources ==
    pc = "return" =>
        /\ Len(ret) = Len(ItemNodes(arg))
        /\ \A k \in 1..Len(ret) :
              InheritedOf(ret[k]) = SourcesAlong(arg, ItemNodes(arg)[k].steps)

C14_Witness ==
    /\ pc = "return"
    /\ Len(ret) = 3
    /\ InheritedOf(ret[1]) = <<s_S, s_T, s_G>>
    /\ InheritedOf(ret[2]) = <<s_S, s_T, s_G, s_B>>
    /\ InheritedOf(ret[3]) = <<s_S, s_T>>
    /\ Get(ret[3], k__path) = JStr(s_liyue)

\* C15: whichever of the three shapes the index of /characters, /weapons or
\* /artifacts is served in (slug strings, objects, slug-keyed object), the
\* fetch of well-formed entries returns without raising, one record per
\* index entry, in index order.
C15_AllIndexShapes ==
    (/\ FetchDone
     /\ arg.kind \in {"characters", "weapons", "artifacts"}
     /\ \A n \in 1..Len(arg.entries) : WellFormed(arg.entries[n]))
        => /\ ret.raised = "none"
           /\ Len(ret.value) = Len(arg.entries)
           /\ \A n \in 1..Len(ret.value) : RecordName(ret.value[n]) = EntryName(arg.entries[n])

\* the same for every endpoint and shape but /characters as a list of objects
ShapesButCharacterObjects ==
    (arg.kind = "characters" /\ arg.shape = "objects" /\ arg.entries # <<>>) \/ C15_AllIndexShapes

\* the records the run fetched from the catalog of a kind
CatalogRecords(kind) ==
    IF kind = "Weapon" THEN fetch_weapons(upstream).value ELSE fetch_artifacts(upstream).value
\* the catalog entity a lower-cased name stands for: the last catalog upsert
\* of a name that lower-cases to it
CatalogEntity(kind, lname) ==
    LET ups == {n \in Upserts : /\ log[n].model = kind
                                /\ log[n].step = "catalog"
                                /\ Lower(log[n].key[1]) = lname}
    IN  log[CHOOSE n \in ups : \A m \in ups : m <= n].key[1]
\* the stored entity carries the fields of the last catalog record of its name
CarriesCatalogFields(kind, entity) ==
    LET recs == CatalogRecords(kind)
        last == CHOOSE n \in 1..Len(recs) :
                    /\ DbText(recs[n].name) = entity
                    /\ \A m \in (n + 1)..Len(recs) : DbText(recs[m].name) # entity
    IN  \A r \in 1..Len(store[kind]) :
            store[kind][r].name = entity =>
                IF kind = "Weapon"
                THEN /\ store[kind][r].weapon_type = recs[last].weapon_type
                     /\ store[kind][r].rarity = recs[last].rarity
                     /\ store[kind][r].source = recs[last].source
                     /\ store[kind][r].description = recs[last].description
                ELSE /\ store[kind][r].two_piece_bonus = recs[last].two_piece_bonus
                     /\ store[kind][r].four_piece_bonus = recs[last].four_piece_bonus
\* the lower-cased recommended names that match a catalog entity
Matched(kind) ==
    { Lower(AllRecNames(kind, 1)[n]) : n \in 1..Len(AllRecNames(kind, 1)) }
        \cap CatalogLower(kind)

\* C16: in a completed run, a recommended weapon or artifact-set name that
\* equals a catalog name of the run case-insensitively is linked to that
\* catalog entity: all its links point at the entity, no placeholder upsert
\* is made for the name (so no entity is created for it), one entity of the
\* name is stored, and it still carries the fields the catalog gave it.
C16_MatchedLinksCatalogEntity ==
    pc = "done" =>
        \A kind \in {"Weapon", "ArtifactSet"} : \A lname \in Matched(kind) :
            LET entity == CatalogEntity(kind, lname)
            IN  /\ LinksPointAt(kind, lname, entity)
                /\ Placeholders(kind, lname) = {}
                /\ \A r \in 1..Len(store[kind]) :
                      Lower(store[kind][r].name) = lname
                          => \/ store[kind][r].name \in
                                    {DbText(CatalogRecords(kind)[n].name) :
                                        n \in 1..Len(CatalogRecords(kind))}
                             \/ Exists(before[kind], [name |-> store[kind][r].name])
                /\ CarriesCatalogFields(kind, entity)

C16_Witness ==
    /\ pc = "done"
    /\ s_rust \in Matched("Weapon")
    /\ \E p \in 1..Len(characters) :
          /\ characters[p].weapon_type = Lower(s_Catalyst)
          /\ \E r \in 1..Len(characters[p].weapon_recommendations) :
                characters[p].weapon_recommendations[r].name = s_RUST
          /\ Stored("CharacterWeaponRecommendation", <<CharacterOf(characters[p]), s_Rust>>)
    /\ ~Stored("Weapon", <<s_RUST>>)
    /\ \E r \in 1..Len(store.Weapon) :
          /\ store.Weapon[r].name = s_Rust
          /\ store.Weapon[r].weapon_type = s_bow
          /\ store.Weapon[r].rarity = 4
          /\ store.Weapon[r].source = s_Gacha
    /\ s_gladiator \in Matched("ArtifactSet")
    /\ \E r \in 1..Len(store.ArtifactSet) :
          /\ store.ArtifactSet[r].name = s_Gladiator
          /\ store.ArtifactSet[r].two_piece_bonus = s_ATK

\* the entity a recommended name is linked to: the map entry of its
\* lower-cased name (an entry, once made in the build loop, is never replaced)
NameMap(kind) == IF kind = "Weapon" THEN weapon_map ELSE artifact_map
Resolved(kind, name) == NameMap(kind)[Lower(name)].name
\* the recommendations of the run in processing order, each with the name of
\* its character
RECURSIVE AllRecs(_, _)
AllRecs(kind, p) ==
    IF p > Len(characters) THEN <<>>
    ELSE [r \in 1..Len(RecsOf(kind, characters[p])) |->
             [character |-> CharacterOf(characters[p]), rec |-> RecsOf(kind, characters[p])[r]]]
         \o AllRecs(kind, p + 1)
\* the rows of a link table under one key
LinkRows(kind, key) ==
    {r \in 1..Len(store[LinkModel(kind)]) :
        RowKey(store, LinkModel(kind), store[LinkModel(kind)][r]) = key}

\* C17: in every state of a first or a later run the store holds at most one
\* link per (character, weapon) and per (character, artifact set); when a run
\* has completed, the ranking of the link of a character to an entity is the
\* ranking of the last recommendation of that character that resolved to the
\* entity.
C17_OneLinkLastRanking ==
    \A kind \in {"Weapon", "ArtifactSet"} :
        /\ \A r \in 1..Len(store[LinkModel(kind)]) :
              LinkRows(kind, RowKey(store, LinkModel(kind), store[LinkModel(kind)][r])) = {r}
        /\ pc = "done" =>
              LET recs == AllRecs(kind, 1)
              IN  \A n \in 1..Len(recs) :
                      LET key  == <<recs[n].character, Resolved(kind, recs[n].rec.name)>>
                          last == \A m \in (n + 1)..Len(recs) :
                                      <<recs[m].character, Resolved(kind, recs[m].rec.name)>> # key
                      IN  last => /\ Cardinality(LinkRows(kind, key)) = 1
                                  /\ \A r \in LinkRows(kind, key) :
                                        store[LinkModel(kind)][r].ranking = recs[n].rec.ranking

C17_Witness ==
    /\ pc = "done"
    /\ run = 2
    /\ \E p \in 1..Len(characters) :
          LET recs == characters[p].weapon_recommendations
          IN  \E a, b \in 1..Len(recs) :
                 /\ a < b
                 /\ b = Len(recs)
                 /\ recs[a].name = s_RUST
                 /\ recs[b].name = s_Rust
                 /\ recs[a].ranking # recs[b].ranking
                 /\ Resolved("Weapon", recs[a].name) = s_Rust
                 /\ \A q \in (p + 1)..Len(characters) : CharacterOf(characters[q]) # CharacterOf(characters[p])
                 /\ \E r \in LinkRows("Weapon", <<CharacterOf(characters[p]), s_Rust>>) :
                       store.CharacterWeaponRecommendation[r].ranking = recs[b].ranking
    /\ \E r \in LinkRows("Weapon", <<s_Amber, s_Foobar_Blade>>) :
          /\ store.CharacterWeaponRecommendation[r].note = s_Old
          /\ store.CharacterWeaponRecommendation[r].ranking = 1

\* the upserts of the build-data loop: talents, placeholders, links
BuildUpserts == {n \in Upserts : log[n].step \in {"build", "placeholder"}}
CatalogUpserts(model) == {n \in Upserts : log[n].model = model /\ log[n].step = "catalog"}
\* the map a catalog gives: each record under its lower-cased name, the last
\* record of a lower-cased name winning
CatalogMap(kind) ==
    [lname \in {Lower(DbText(CatalogRecords(kind)[n].name)) : n \in 1..Len(CatalogRecords(kind))} |->
        LET recs == CatalogRecords(kind)
        IN  DbText(recs[CHOOSE n \in 1..Len(recs) :
                    /\ Lower(DbText(recs[n].name)) = lname
                    /\ \A m \in (n + 1)..Len(recs) : Lower(DbText(recs[m].name)) # lname].name)]

\* the name of the entity each key of a name map stands for
MapNames(kind) == [lname \in DOMAIN NameMap(kind) |-> NameMap(kind)[lname].name]

\* C18: in every state of a run, each talent upsert, placeholder upsert and
\* link upsert of the log comes after every GET request and every catalog
\* upsert of the log, and by then each fetched character, material, weapon
\* and artifact set has had its catalog upsert; when the build-data loop
\* starts, the two name maps are exactly the maps of the fetched catalogs.
C18_BuildAfterCatalogs ==
    /\ \A n \in BuildUpserts :
          /\ \A m \in Gets : m < n
          /\ \A m \in Upserts : log[m].step = "catalog" => m < n
    /\ BuildUpserts # {} =>
          /\ Cardinality(CatalogUpserts("Character")) = Len(characters)
          /\ Cardinality(CatalogUpserts("Material")) = Len(fetch_materials(upstream).value)
          /\ Cardinality(CatalogUpserts("Weapon")) = Len(CatalogRecords("Weapon"))
          /\ Cardinality(CatalogUpserts("ArtifactSet")) = Len(CatalogRecords("ArtifactSet"))
    /\ (pc = "build" /\ cursor.payload = 1 /\ cursor.stage = "get") =>
          /\ BuildUpserts = {}
          /\ MapNames("Weapon") = CatalogMap("Weapon")
          /\ MapNames("ArtifactSet") = CatalogMap("ArtifactSet")

C18_Witness ==
    /\ pc = "done"
    /\ \A model \in {"Character", "Material", "Weapon", "ArtifactSet"} :
          CatalogUpserts(model) # {}
    /\ \E n \in BuildUpserts : log[n].model = "CharacterTalent"
    /\ \E n \in BuildUpserts : log[n].step = "placeholder" /\ log[n].model = "Weapon"
    /\ \E n \in BuildUpserts : log[n].step = "placeholder" /\ log[n].model = "ArtifactSet"
    /\ \E n \in BuildUpserts : log[n].model = "CharacterWeaponRecommendation"
    /\ \E n \in BuildUpserts : log[n].model = "CharacterArtifactRecommendation"
    /\ \E n \in BuildUpserts :
          /\ \A m \in 1..(n - 1) : m \notin BuildUpserts
          /\ Len(characters) > 1
          /\ n = Cardinality(Gets) + Cardinality({m \in Upserts : log[m].step = "catalog"}) + 1

\* the row of a table under a key
RowOf(st, model, key) ==
    st[model][CHOOSE r \in 1..Len(st[model]) : RowKey(st, model, st[model][r]) = key]
UpsertedKeys(model) == {log[n].key : n \in {m \in Upserts : log[m].model = model}}

\* no other process has written the tables
Undisturbed == other = NotRunning /\ sample = NotLoading /\ edits = 0
\* every row the store held when the run started is still there under its key
KeptByKey ==
    \A model \in Models : \A r \in 1..Len(before[model]) :
        Stored(model, RowKey(before, model, before[model][r]))
\* a row whose key the run has not upserted is field for field what it was
Untouched ==
    \A model \in Models : \A r \in 1..Len(before[model]) :
        LET key == RowKey(before, model, before[model][r])
        IN  key \notin UpsertedKeys(model) => RowOf(store, model, key) = before[model][r]
\* the step leaves every row in its table, under its id and with its key
KeepsRows ==
    \A model \in Models : \A r \in 1..Len(store[model]) :
        \E q \in 1..Len(store'[model]) :
            /\ store'[model][q].id = store[model][r].id
            /\ \A f \in UniqueTogether(model) : store'[model][q][f] = store[model][r][f]

\* C19: no step of an import command (nor of load_sample_data) deletes a row
\* or changes the key of one, whatever the other processes write in between;
\* so in every state of a run, completed, aborted or under way, every row the
\* store held when the run started is still there under its key, for all
\* models, unless the admin has edited the tables; and while no other process
\* has written, a row whose key the run has not upserted is field for field
\* what it was.
C19_NothingDeleted ==
    /\ [][edits' = edits => KeepsRows]_vars
    /\ [](edits = 0 => KeptByKey)
    /\ [](Undisturbed => Untouched)

C19_Witness ==
    /\ pc = "done"
    /\ before # EmptyStore
    /\ store # before
    /\ \E p \in 1..Len(characters) : CharacterOf(characters[p]) = s_Amber
    /\ <<s_Amber, s_Aim>> \in UpsertedKeys("CharacterTalent")
    /\ <<s_Amber, s_Old>> \notin UpsertedKeys("CharacterTalent")
    /\ Undisturbed
    /\ \E r \in 1..Len(store.CharacterTalent) :
          /\ RowKey(store, "CharacterTalent", store.CharacterTalent[r]) = <<s_Amber, s_Old>>
          /\ store.CharacterTalent[r].description = s_Old
          /\ store.CharacterTalent[r].recommended_priority = 1
    /\ <<s_wanderer>> \notin UpsertedKeys("ArtifactSet")
    /\ Stored("ArtifactSet", <<s_Wanderer>>)
    /\ Stored("ArtifactSet", <<s_wanderer>>)
    /\ Len(store.CharacterTalent) = Len(before.CharacterTalent)
    /\ Len(store.Weapon) > Len(before.Weapon)

\* the recommended weapon names, as spelled, that match no catalog weapon of
\* the run and were the name of a stored weapon when the run started
StoredUnmatched ==
    { AllRecNames("Weapon", 1)[n] : n \in 1..Len(AllRecNames("Weapon", 1)) }
        \cap { name \in { before.Weapon[r].name : r \in 1..Len(before.Weapon) } :
                   Lower(name) \in Unmatched("Weapon") }
\* the first payload that recommends the weapon name as spelled
FirstRecommending(name) ==
    CHOOSE p \in 1..Len(characters) :
        /\ \E r \in 1..Len(characters[p].weapon_recommendations) :
              characters[p].weapon_recommendations[r].name = name
        /\ \A q \in 1..(p - 1) : \A r \in 1..Len(characters[q].weapon_recommendations) :
              characters[q].weapon_recommendations[r].name # name
\* no weapon is created for the name; the stored weapon of that name has the
\* placeholder values of the first recommending payload and its description
PlaceholderOverwrites(name) ==
    /\ \A n \in Placeholders("Weapon", Lower(name)) : ~log[n].created
    /\ Cardinality({r \in 1..Len(store.Weapon) : store.Weapon[r].name = name}) = 1
    /\ LET row == RowOf(store, "Weapon", <<name>>)
           old == RowOf(before, "Weapon", <<name>>)
       IN  /\ row.weapon_type = characters[FirstRecommending(name)].weapon_type
           /\ row.rarity = 4
           /\ row.source = <<>>
           /\ row.description = old.description

\* C20 as stated: in a completed run, every recommended weapon name that
\* matches no catalog weapon of the run and was stored as a weapon at the
\* start has no entity created for it and its stored entity overwritten with
\* the placeholder values of the first character recommending it, name and
\* description unchanged.
C20_StoredNameOverwritten ==
    pc = "done" => \A name \in StoredUnmatched : PlaceholderOverwrites(name)

\* the name was first recommended under another spelling: the one placeholder
\* upsert of the lower-cased name is under that spelling, its entity is stored
\* and carries the links of every character recommending the name under any
\* spelling, and the stored entity of the name is field for field what it was
OtherSpellingFirst(name) ==
    /\ Placeholders("Weapon", Lower(name)) # {}
    /\ \A n \in Placeholders("Weapon", Lower(name)) :
          log[n].key = <<FirstSpelling("Weapon", Lower(name))>>
    /\ Stored("Weapon", <<FirstSpelling("Weapon", Lower(name))>>)
    /\ LinksPointAt("Weapon", Lower(name), FirstSpelling("Weapon", Lower(name)))
    /\ Cardinality({r \in 1..Len(store.Weapon) : store.Weapon[r].name = name}) = 1
    /\ RowOf(store, "Weapon", <<name>>) = RowOf(before, "Weapon", <<name>>)

\* C20, amended: in a completed run, every such name that is the first
\* spelling the run processes of its lower-cased form has no entity created
\* for it and its stored entity overwritten with the placeholder values of the
\* first character recommending it, name and description unchanged; every
\* such name first recommended under another spelling has a placeholder of
\* that spelling upserted instead, the recommendations of the stored spelling
\* linked to that placeholder, and its stored entity left untouched.
C20_FirstSpellingOverwritten ==
    pc = "done" =>
        \A name \in StoredUnmatched :
            IF name = FirstSpelling("Weapon", Lower(name))
            THEN PlaceholderOverwrites(name)
            ELSE OtherSpellingFirst(name)

\* a run in which a stored name is recommended after another spelling of it
OtherSpellingSeen ==
    /\ pc = "done"
    /\ \E name \in StoredUnmatched :
          /\ name # FirstSpelling("Weapon", Lower(name))
          /\ RowOf(before, "Weapon", <<name>>).weapon_type
                # characters[FirstRecommending(name)].weapon_type

C20_Witness ==
    /\ pc = "done"
    /\ run = 1
    /\ before = SeededStore
    /\ s_Foobar_Blade \in StoredUnmatched
    /\ s_Foobar_Blade = FirstSpelling("Weapon", s_foobar_blade)
    /\ Len(characters) > 1
    /\ characters[FirstRecommending(s_Foobar_Blade)].weapon_type = s_bow
    /\ \E p \in 1..Len(characters) :
          /\ p > FirstRecommending(s_Foobar_Blade)
          /\ characters[p].weapon_type # s_bow
          /\ Recommends("Weapon", characters[p], s_foobar_blade)
    /\ RowOf(before, "Weapon", <<s_Foobar_Blade>>).weapon_type = s_sword
    /\ RowOf(store, "Weapon", <<s_Foobar_Blade>>) =
          [RowOf(before, "Weapon", <<s_Foobar_Blade>>)
              EXCEPT !.weapon_type = s_bow, !.rarity = 4, !.source = <<>>]
    /\ RowOf(store, "Weapon", <<s_Foobar_Blade>>).description = s_Old
    /\ ~Stored("Weapon", <<s_foobar_blade>>)

(***************************************************************************)
(* extract_items_from_category_payload on the heap                         *)
(*                                                                         *)
(* Python dicts and lists are objects that several names can refer to, and *)
(* d[k] = v and l.append(v) change the object in place.  Here the heap is  *)
(* a sequence of objects, a reference is the index of one, and the walk    *)
(* is computed write by write, each write recorded.                        *)
(***************************************************************************)
JRef(a)  == [t |-> "ref", s |-> <<>>, n |-> a, items |-> <<>>, kv |-> <<>>]
IsRef(v) == v.t = "ref"

\* the one element of a singleton set; Only({F(x) : x \in {e}}) computes e
\* once, before F uses it
Only(S) == CHOOSE x \in S : TRUE

\* response.json(): every list and every dict of the body is an object of
\* its own, strings, integers and None are values
RECURSIVE Load(_, _)
RECURSIVE LoadItems(_, _, _)
RECURSIVE LoadEntries(_, _, _)
Load(h, v) ==
    IF IsList(v)
    THEN Only({ [heap |-> Append(ch.heap, JList(ch.vals)), ref |-> JRef(Len(ch.heap) + 1)] :
                  ch \in {LoadItems(h, v.items, 1)} })
    ELSE IF IsDict(v)
    THEN Only({ [heap |-> Append(ch.heap, JDict(ch.vals)), ref |-> JRef(Len(ch.heap) + 1)] :
                  ch \in {LoadEntries(h, v.kv, 1)} })
    ELSE [heap |-> h, ref |-> v]
LoadItems(h, items, i) ==
    IF i > Len(items) THEN [heap |-> h, vals |-> <<>>]
    ELSE Only({ Only({ [heap |-> rest.heap, vals |-> <<one.ref>> \o rest.vals] :
                         rest \in {LoadItems(one.heap, items, i + 1)} }) :
                  one \in {Load(h, items[i])} })
LoadEntries(h, kv, i) ==
    IF i > Len(kv) THEN [heap |-> h, vals |-> <<>>]
    ELSE Only({ Only({ [heap |-> rest.heap, vals |-> <<KV(kv[i].k, one.ref)>> \o rest.vals] :
                         rest \in {LoadEntries(one.heap, kv, i + 1)} }) :
                  one \in {Load(h, kv[i].v)} })

\* the tree a value of the heap stands for
RECURSIVE Deref(_, _)
Deref(h, v) ==
    IF ~IsRef(v) THEN v
    ELSE IF IsList(h[v.n])
    THEN JList([i \in 1..Len(h[v.n].items) |-> Deref(h, h[v.n].items[i])])
    ELSE JDict([i \in 1..Len(h[v.n].kv) |->
                   KV(h[v.n].kv[i].k, Deref(h, h[v.n].kv[i].v))])

\* the state the walk threads: the heap, the list "items" of the enclosing
\* function, and the addresses written so far
NewObject(st, obj) ==
    [st |-> [st EXCEPT !.heap = Append(@, obj)], ref |-> JRef(Len(st.heap) + 1)]
\* d[k] = v
SetItem(st, d, k, v) ==
    [st EXCEPT !.heap[d.n] = DictSet(@, k, v), !.writes = Append(@, d.n)]
\* l.append(v)
ListAppend(st, l, v) ==
    [st EXCEPT !.heap[l.n] = JList(Append(@.items, v)), !.writes = Append(@, l.n)]

\* a plausible slip: clean = node, the item itself is tagged
CopyDictAlias(st, node) == [st |-> st, ref |-> node]

\* clean = dict(node): a new dict with the entries of node, the values shared
CopyDict(st, node) == NewObject(st, st.heap[node.n])

\* a plausible slip: local_sources = inherited_sources; local_sources += ...,
\* the list handed down is extended in place
ConcatInPlace(st, l, parts) ==
    [st |-> [st EXCEPT !.heap[l.n] = JList(@.items \o StrList(parts)),
                       !.writes = Append(@, l.n)],
     ref |-> l]

\* inherited_sources + get_sources_from_node(node): a new list
Concat(st, l, parts) == NewObject(st, JList(st.heap[l.n].items \o StrList(parts)))

\* if looks_like_item(node): clean = dict(node); clean["_path"] = ...;
\* if local_sources: clean["_inherited_sources"] = local_sources;
\* items.append(clean)
TagItem(st, node, path, local_sources) ==
    IF ~looks_like_item(st.heap[node.n]) THEN st
    ELSE Only({ Only({ ListAppend(
                           IF pathed.heap[local_sources.n].items # <<>>
                           THEN SetItem(pathed, clean.ref, k__inherited_sources, local_sources)
                           ELSE pathed,
                           pathed.items, clean.ref) :
                         pathed \in {SetItem(clean.st, clean.ref, k__path,
                                             JStr(Join(<<47>>, path)))} }) :
                  clean \in {CopyDict(st, node)} })

\* walk(node, path, inherited_sources), the state after it
RECURSIVE WalkHeap(_, _, _, _)
RECURSIVE WalkHeapDict(_, _, _, _, _)
RECURSIVE WalkHeapList(_, _, _, _, _)
WalkHeap(st, node, path, inherited_sources) ==
    \* inherited_sources = inherited_sources or []
    Only({ IF IsRef(node) /\ IsDict(own.st.heap[node.n])
           THEN Only({ Only({ WalkHeapDict(tagged, node, 1, path, local.ref) :
                                tagged \in {TagItem(local.st, node, path, local.ref)} }) :
                         local \in {Concat(own.st, own.ref,
                                           get_sources_from_node(Deref(own.st.heap, node)))} })
           ELSE IF IsRef(node) /\ IsList(own.st.heap[node.n])
           THEN WalkHeapList(own.st, node, 1, path, own.ref)
           ELSE own.st :
             own \in {IF inherited_sources = JNull
                         \/ st.heap[inherited_sources.n].items = <<>>
                      THEN NewObject(st, JList(<<>>))
                      ELSE [st |-> st, ref |-> inherited_sources]} })
\* for k, v in node.items(), from the i-th entry on
WalkHeapDict(st, node, i, path, local_sources) ==
    LET entries == st.heap[node.n].kv
    IN  IF i > Len(entries) THEN st
        ELSE Only({ WalkHeapDict(next, node, i + 1, path, local_sources) :
                      next \in {IF entries[i].k = k_id /\ IsStr(entries[i].v)
                                    /\ Len(entries) <= 2
                                 THEN st
                                 ELSE WalkHeap(st, entries[i].v, Append(path, entries[i].k),
                                               local_sources)} })
\* for idx, v in enumerate(node), from position i = idx + 1 on
WalkHeapList(st, node, i, path, inherited_sources) ==
    LET elems == st.heap[node.n].items
    IN  IF i > Len(elems) THEN st
        ELSE Only({ WalkHeapList(next, node, i + 1, path, inherited_sources) :
                      next \in {WalkHeap(st, elems[i], Append(path, IntToStr(i - 1)),
                                          inherited_sources)} })

\* items = []; walk(payload); return items
ExtractOnHeap(h, payload) ==
    Only({ WalkHeap(st, payload, <<>>, JNull) :
             st \in {[heap |-> Append(h, JList(<<>>)), items |-> JRef(Len(h) + 1),
                      writes |-> <<>>]} })

\* the payload as response.json() hands it over: a heap and the root
InitHeap ==
    /\ pc = "call"
    /\ \E payload \in WalkPayloads : arg = Load(<<>>, payload)
    /\ ret = <<>>
    /\ upstream = <<>>
    /\ NoImport

ExtractItemsOnHeap ==
    /\ pc = "call"
    /\ ret' = ExtractOnHeap(arg.heap, arg.ref)
    /\ pc' = "return"
    /\ UNCHANGED <<arg, upstream, handle_vars>>

NextHeap == ExtractItemsOnHeap

SpecHeap == InitHeap /\ [][NextHeap]_vars

\* the items returned, as references
ReturnedItems ==
    ret.heap[ret.items.n].items
\* the lists the returned items carry as their inherited sources
InheritedLists ==
    { GetD(ret.heap[ReturnedItems[n].n], k__inherited_sources, JNull).n :
        n \in {m \in 1..Len(ReturnedItems) : Has(ret.heap[ReturnedItems[m].n], k__inherited_sources)} }

\* C21: when extract_items_from_category_payload has returned, every object
\* of the payload is what it was before the call; the only objects written
\* during the walk are the list of items and the copies it holds, which are
\* objects made by the walk; no list of inherited sources is written after
\* it is made; and the items returned are those of the walk computed on
\* values, each with the sources inherited along its own path.
C21_PayloadNotMutated ==
    pc = "return" =>
        /\ Len(ret.heap) >= Len(arg.heap)
        /\ \A a \in 1..Len(arg.heap) : ret.heap[a] = arg.heap[a]
        /\ Deref(ret.heap, arg.ref) = Deref(arg.heap, arg.ref)
        /\ \A n \in 1..Len(ret.writes) :
              /\ ret.writes[n] > Len(arg.heap)
              /\ \/ ret.writes[n] = ret.items.n
                 \/ \E m \in 1..Len(ReturnedItems) : ReturnedItems[m].n = ret.writes[n]
              /\ ret.writes[n] \notin InheritedLists
        /\ \A a \in InheritedLists : a > Len(arg.heap)
        /\ Deref(ret.heap, ret.items)
              = JList(extract_items_from_category_payload(Deref(arg.heap, arg.ref)))

C21_Witness ==
    /\ pc = "return"
    /\ Len(ReturnedItems) >= 3
    /\ Cardinality(InheritedLists) >= 2
    /\ \E n \in 1..Len(ReturnedItems) :
          LET clean == ret.heap[ReturnedItems[n].n]
          IN  /\ Has(clean, k__path)
              /\ Has(clean, k__inherited_sources)
              /\ IsRef(Get(clean, k_characters))
              /\ Get(clean, k_characters).n <= Len(arg.heap)
              /\ \E a \in 1..Len(arg.heap) :
                    /\ IsDict(arg.heap[a])
                    /\ Get(arg.heap[a], k_characters) = Get(clean, k_characters)
                    /\ ~Has(ret.heap[a], k__path)
    /\ \E n \in 1..Len(ret.writes) : ret.writes[n] # ret.items.n

====
